---- MODULE Spec2Model ----
(***************************************************************************)
(* Worker marketplace core of langgraph-platform: the worker factory and   *)
(* its journey registry, the ClaudeCodeWorker with lazy container          *)
(* isolation, witness enforcement, the MCP tool interface, the stand-alone *)
(* worker implementations (database, git, file, mock) and the ExecutorNode *)
(* dispatcher.                                                             *)
(*                                                                         *)
(* Coroutines run on one asyncio event loop: a handler runs without        *)
(* interruption up to an await that really suspends (asyncio.to_thread in  *)
(* ContainerIsolation); each such stretch is one action of the model.      *)
(***************************************************************************)
EXTENDS Integers, Sequences, FiniteSets, TLC

VARIABLES
    instances,    \* WorkerFactory._instances: the (journey, worker object) items, in insertion order
    mcpWorkers,   \* WorkerMarketplaceMCP.workers: journey -> worker object (0 = absent)
    wk,           \* the ClaudeCodeWorker objects on the heap, by object id
    docker,       \* container handles alive in the docker daemon
    nextHandle,   \* number of containers ever created
    registry,     \* WitnessRegistry._witnesses (the registered witness ids)
    pc,           \* per coroutine: where it is suspended
    loc,          \* per coroutine: its local variables
    live,         \* worker objects returned by spawn whose kill has not completed
    last,         \* the most recently completed call and what it returned
    db,           \* DatabaseWorker: connection and the rows of table "users"
    git,          \* GitWorker: the repository it reads and writes
    files,        \* FileWorker: targets written on the file system
    mock,         \* MockWorker: configuration and call tracking
    nodeWorkers,  \* ExecutorNode.workers: the worker types it dispatches to
    graph,        \* the StateGraph builder of the workflow module: nodes and edges
    run,          \* WorkflowExecutor.aexecute: its inputs and how far it has got
    store,        \* the checkpointer context manager aexecute enters
    thread,       \* the state kept for one thread_id, and the agent calls made on it
    dashboard,    \* sanitize_for_dashboard: its argument and what it returned
    loop          \* the optimize-evaluate workflow: the node reached and its state

vars == <<instances, mcpWorkers, wk, docker, nextHandle, registry,
          pc, loc, live, last, db, git, files, mock, nodeWorkers,
          graph, run, store, thread, dashboard, loop>>

factoryVars == <<instances, mcpWorkers, wk, docker, nextHandle,
                 registry, pc, loc, live>>
implVars == <<db, git, files, mock, nodeWorkers>>
runtimeVars == <<graph, run, store, thread, dashboard, loop>>

sideVars == <<dashboard, loop>>

----------------------------------------------------------------------------
(* Bounds *)

NumTasks == 2       \* coroutines running concurrently on the event loop
MaxWorkers == 2     \* worker objects on the heap at one time
MaxContainers == 1  \* containers created in one run
MaxActions == 1     \* cap on a worker's _action_count
MaxRows == 2        \* cap on the rows of the database table
MaxCommits == 1     \* cap on the commits ahead of the remote
MaxCalls == 1       \* cap on MockWorker call tracking
MaxConstraints == 2 \* constraints of a definition handed to the validator
MaxAgents == 1      \* entries of claude_code_config["agents"] besides the template's
MaxRetries == 4     \* max_retries of a ResilientPostgresCheckpointer
MaxRuns == 3        \* runs of one agent on one thread_id

Tasks == 1..NumTasks
Journeys == {"j1", "j2"}
NoWorker == 0
NoContainer == 0
WorkerIds == 1..MaxWorkers
IsolationLevels == {"container", "process"}

----------------------------------------------------------------------------
(* Actions handed to void()/execute() *)

max_size == 1000000

NoAction == [type |-> "none", content_len |-> 0, target |-> "", table |-> "",
             where |-> "", data |-> "", message |-> "", force |-> FALSE,
             approved |-> FALSE, worker_type |-> "file"]

Act(t, len, tgt) == [NoAction EXCEPT !.type = t, !.content_len = len, !.target = tgt]

\* actions for the ClaudeCodeWorker (file-like actions seen by the witnesses)
ClaudeActions ==
    { Act("write", 1, "test.txt"),
      Act("write", max_size, "test.txt"),
      Act("write", 2 * max_size, "test.txt"),
      Act("read", 0, "../etc/passwd"),
      Act("web_search", 0, "") }

\* "../" in target
HasDotDotSlash(target) == target \in {"../etc/passwd"}
\* target.startswith("/")
StartsWithSlash(target) == target \in {"/etc/passwd"}

----------------------------------------------------------------------------
(* Witness registry and the built-in witnesses *)

BuiltinWitnesses == {"verify_file_size_within_limit",
                     "verify_search_count_within_hourly_limit",
                     "verify_workspace_isolation",
                     "verify_no_network_access"}

\* witnesses a caller may register later (WitnessRegistry.register)
UserWitnesses == {"mock_witness_raises"}

\* names the definition validator accepts (validator.WITNESS_REGISTRY)
WITNESS_REGISTRY == {"response_time_under_5s", "all_actions_logged", "session_persisted"}

Warn(kind, witness) == [kind |-> kind, witness |-> witness]

verify_file_size_within_limit(action) ==
    IF action.type = "write" /\ action.content_len > max_size
    THEN << Warn("file_size_exceeds_limit", "verify_file_size_within_limit") >>
    ELSE << >>

verify_search_count_within_hourly_limit(action) == << >>

verify_workspace_isolation(action) ==
    IF action.type \in {"read", "write", "delete"}
       /\ (HasDotDotSlash(action.target) \/ StartsWithSlash(action.target))
    THEN << Warn("path_traversal", "verify_workspace_isolation") >>
    ELSE << >>

verify_no_network_access(action) ==
    IF action.type \in {"web_search", "http_request", "api_call"}
    THEN << Warn("network_access_denied", "verify_no_network_access") >>
    ELSE << >>

\* A witness function either returns its warnings or raises.
WitnessRaises(witness_id, action) == witness_id = "mock_witness_raises"

\* WitnessRegistry.run on a registered, non-raising witness
WitnessRun(witness_id, action) ==
    CASE witness_id = "verify_file_size_within_limit" -> verify_file_size_within_limit(action)
      [] witness_id = "verify_search_count_within_hourly_limit" ->
             verify_search_count_within_hourly_limit(action)
      [] witness_id = "verify_workspace_isolation" -> verify_workspace_isolation(action)
      [] witness_id = "verify_no_network_access" -> verify_no_network_access(action)
      [] OTHER -> << >>

is_registered(witness_id, reg) == witness_id \in reg

----------------------------------------------------------------------------
(* Worker definitions *)

Constraint(cid, witness) == [constraint_id |-> cid, witness |-> witness]

Definitions ==
    [ research |-> [worker_id |-> "research_assistant_v1", has_placeholder |-> TRUE,
                    constraints |-> << Constraint("c_size", "verify_file_size_within_limit"),
                                       Constraint("c_iso", "verify_workspace_isolation") >>],
      sandbox  |-> [worker_id |-> "sandbox_v1", has_placeholder |-> FALSE,
                    constraints |-> << Constraint("c_mock", "mock_witness_raises"),
                                       Constraint("c_net", "verify_no_network_access") >>],
      declared |-> [worker_id |-> "declared_v1", has_placeholder |-> TRUE,
                    constraints |-> << Constraint("c_rt", "response_time_under_5s"),
                                       Constraint("c_size", "verify_file_size_within_limit"),
                                       Constraint("c_iso", "verify_workspace_isolation") >>] ]

DefIds == DOMAIN Definitions

\* what spawn() is handed: a WorkerDefinition object or the path of a YAML file
DefinitionInputs == DefIds \cup {"research.yaml", "missing.yaml"}

\* load_worker_definition: the definition a path holds, "error" when it raises
load_worker_definition(path) ==
    IF path = "research.yaml" THEN "research" ELSE "error"

----------------------------------------------------------------------------
(* Witness enforcement *)

\* a verify that lets a raising witness end the loop
RECURSIVE verifyFrom_abort(_, _, _, _)
verifyFrom_abort(i, action, constraints, reg) ==
    IF i > Len(constraints) THEN [warnings |-> << >>, invoked |-> << >>]
    ELSE LET c == constraints[i]
             rest == verifyFrom_abort(i + 1, action, constraints, reg)
         IN  IF ~(c.witness \in reg)
             THEN rest
             ELSE IF c.witness = "mock_witness_raises"
             THEN [warnings |-> << [kind |-> "witness_execution_error", witness |-> c.witness] >>,
                   invoked |-> << i >>]
             ELSE [warnings |-> WitnessRun(c.witness, action) \o rest.warnings,
                   invoked |-> << i >> \o rest.invoked]

\* WitnessEnforcement.verify from constraint i on: the warnings collected and
\* the constraints (by position) whose witness was invoked
RECURSIVE verifyFrom(_, _, _, _)
verifyFrom(i, action, constraints, reg) ==
    IF i > Len(constraints) THEN [warnings |-> << >>, invoked |-> << >>]
    ELSE LET c == constraints[i]
             rest == verifyFrom(i + 1, action, constraints, reg)
         IN  IF ~is_registered(c.witness, reg)
             THEN rest
             ELSE IF WitnessRaises(c.witness, action)
             THEN [warnings |-> << Warn("witness_execution_error", c.witness) >> \o rest.warnings,
                   invoked |-> << i >> \o rest.invoked]
             ELSE [warnings |-> WitnessRun(c.witness, action) \o rest.warnings,
                   invoked |-> << i >> \o rest.invoked]

verify(action, constraints, reg) == verifyFrom(1, action, constraints, reg)

----------------------------------------------------------------------------
(* Results *)

\* VoidResult / ExecutionResult, one shape for both
Result(success, side_effect, warnings, error) ==
    [success |-> success, side_effect_occurred |-> side_effect,
     warnings |-> warnings, error |-> error, affected_rows |-> 0]

NoResult == Result(FALSE, FALSE, << >>, "none")

\* a void that reports the side effect of the checks it ran
ClaudeCodeWorker_void_effect(worker, action, reg) ==
    Result(TRUE, TRUE, verify(action, Definitions[worker.def].constraints, reg).warnings, "none")

\* ClaudeCodeWorker.void: the witnesses' warnings, success and no side effect
ClaudeCodeWorker_void(worker, action, reg) ==
    Result(TRUE, FALSE, verify(action, Definitions[worker.def].constraints, reg).warnings, "none")

\* the ExecutionResult ClaudeCodeWorker.execute returns when it does not raise
ClaudeCodeWorker_execute_result == Result(TRUE, TRUE, << >>, "none")

----------------------------------------------------------------------------
(* Worker objects *)

FreeWorker == [journey |-> "none", def |-> "none", isolation_level |-> "none",
               workspace |-> << >>, container_id |-> NoContainer,
               container_spawned |-> FALSE, action_count |-> 0]

\* spawn step 3: the workspace path, as the template part and the journey part
workspace_path(def, j) ==
    IF Definitions[def].has_placeholder THEN << "template", j >>
    ELSE << "template", "/", j >>

\* a constructor that marks the isolation as already acquired
NewWorker_eager(def, j, iso) ==
    [journey |-> j, def |-> def, isolation_level |-> iso,
     workspace |-> workspace_path(def, j), container_id |-> NoContainer,
     container_spawned |-> TRUE, action_count |-> 0]

\* ClaudeCodeWorker.__init__
NewWorker(def, j, iso) ==
    [journey |-> j, def |-> def, isolation_level |-> iso,
     workspace |-> workspace_path(def, j), container_id |-> NoContainer,
     container_spawned |-> FALSE, action_count |-> 0]

NoLoc == [op |-> "none", ctx |-> "none", j |-> "none", w |-> NoWorker,
          a |-> NoAction, h |-> NoContainer, todo |-> << >>, calls |-> << >>,
          void_warnings |-> << >>]

\* a WorkerDefinition as the validator reads it
NoCandidate == [worker_id |-> "", system_prompt |-> "", constraints |-> << >>,
                trust_level |-> "sandboxed"]

NoLast == [op |-> "none", j |-> "none", w |-> NoWorker, impl |-> "none",
           def |-> "none", a |-> NoAction, outcome |-> "none", result |-> NoResult,
           invoked |-> << >>, calls |-> << >>, void_warnings |-> << >>,
           candidate |-> NoCandidate]

Called(op, j, w, a, outcome) ==
    [NoLast EXCEPT !.op = op, !.j = j, !.w = w, !.impl = "claude_code",
                   !.a = a, !.outcome = outcome]

\* a spawn that skips the isolation check
JourneyPresent_unchecked(j, inst) == FALSE

\* user_journey_id in WorkerFactory._instances
JourneyPresent(j, inst) == \E i \in DOMAIN inst : inst[i].j = j

\* WorkerFactory._instances.get(user_journey_id)
Get(inst, j) ==
    IF JourneyPresent(j, inst)
    THEN inst[CHOOSE i \in DOMAIN inst : inst[i].j = j].w
    ELSE NoWorker

\* WorkerFactory._instances[user_journey_id] = worker, for a journey not present
Put(inst, j, w) == Append(inst, [j |-> j, w |-> w])

\* WorkerFactory._instances.pop(user_journey_id)
Pop(inst, j) == SelectSeq(inst, LAMBDA e : e.j # j)

\* list(WorkerFactory._instances.keys())
list_keys(inst) == [i \in DOMAIN inst |-> inst[i].j]

\* the definition spawn works with: the object, or what the path loads to
ResolveDefinition(definition) ==
    IF definition \in DefIds THEN definition ELSE load_worker_definition(definition)

\* Worker objects are reached from the factory registry, from the tool
\* server's map and from the frames of running coroutines; an object nothing
\* refers to is reclaimed and its slot is free again.
Referenced(inst, mcp, frames) ==
    ({inst[i].w : i \in DOMAIN inst} \cup {mcp[j] : j \in Journeys}
       \cup {frames[p].w : p \in Tasks}) \ {NoWorker}

Collect(workers, inst, mcp, frames) ==
    [w \in WorkerIds |-> IF w \in Referenced(inst, mcp, frames) THEN workers[w] ELSE FreeWorker]

Constructed == {w \in WorkerIds : wk[w] # FreeWorker}

HeapFull == Constructed = WorkerIds

NewId == CHOOSE w \in WorkerIds : w \notin Constructed /\ \A v \in 1..(w - 1) : v \in Constructed

----------------------------------------------------------------------------
(* The workflow runtime at rest *)

\* a StateGraph builder nothing was added to
NoGraph == [nodes |-> {}, edges |-> {}]

\* no aexecute call has begun
NoRun == [phase |-> "idle", agents |-> << >>, llm_providers |-> << >>,
          checkpointer |-> "none", skipped |-> {}, error |-> "none",
          tracing |-> FALSE, cm |-> FALSE, flushed |-> 0, released |-> 0,
          order |-> << >>]

\* no checkpointer context manager
NoStore == [kind |-> "none", max_retries |-> 0, retry_delays |-> << >>,
            status |-> "closed", attempt |-> 0, attempts |-> 0, slept |-> << >>,
            backend |-> "none", degraded |-> FALSE, error |-> "none"]

\* a thread nothing ran on
\* values of the state key {role}_session_id that are not a session id: the
\* key is missing, holds None, or holds the empty string
Absent == "<absent>"
None == "<None>"
NoHint == "<no hint>"

\* no exception
NoError == [type |-> "none", message |-> "none", carries |-> "none"]

\* no subprocess has run
NoProcess == [timeout |-> FALSE, returncode |-> 0, stdout |-> "none",
              session |-> None, stderr |-> ""]

\* no agent node has been called
NoCall == [task |-> FALSE, read |-> Absent, called |-> FALSE, hint |-> NoHint,
           returned |-> None, update |-> Absent, error |-> NoError,
           result |-> NoProcess]

\* a thread no run has touched: provider is the role's provider, state the
\* value of {role}_session_id in the thread's state, session the id the
\* transport returned last, call the agent node's latest invocation
NoThread == [provider |-> "none", state |-> Absent, session |-> None,
             call |-> NoCall, runs |-> 0]

\* sanitize_for_dashboard has not been called
NoDashboard == [data |-> [kind |-> "none"], sanitized |-> [kind |-> "none"],
                metadata |-> {}, done |-> FALSE]

\* no optimize-evaluate workflow is running
NoLoop == [node |-> "none", max_iterations |-> 0, iteration |-> 0,
           converged |-> FALSE, writer_output |-> "", validator_output |-> "",
           checks |-> 0, route |-> "none"]

RuntimeIdle ==
    /\ graph = NoGraph
    /\ run = NoRun
    /\ store = NoStore
    /\ thread = NoThread
    /\ dashboard = NoDashboard
    /\ loop = NoLoop

----------------------------------------------------------------------------
(* Initial state *)

Init ==
    /\ instances = << >>
    /\ mcpWorkers = [j \in Journeys |-> NoWorker]
    /\ wk = [w \in WorkerIds |-> FreeWorker]
    /\ docker = {}
    /\ nextHandle = 0
    /\ registry = BuiltinWitnesses
    /\ pc = [p \in Tasks |-> "idle"]
    /\ loc = [p \in Tasks |-> NoLoc]
    /\ live = {}
    /\ last = NoLast
    /\ db = [conn |-> FALSE, environment |-> "development", young |-> 0, old |-> 0]
    /\ git = [branch |-> "main", staged |-> 0, ahead |-> 0]
    /\ files = {}
    /\ mock = [void_should_fail |-> FALSE, void_warnings |-> FALSE,
               execute_should_fail |-> FALSE, void_calls |-> 0, execute_calls |-> 0]
    /\ nodeWorkers = {}
    /\ RuntimeIdle

Return(p) ==
    /\ pc' = [pc EXCEPT ![p] = "idle"]
    /\ loc' = [loc EXCEPT ![p] = NoLoc]

----------------------------------------------------------------------------
(* WorkerFactory *)

\* WitnessRegistry.register
Register(witness_id) ==
    /\ witness_id \notin registry
    /\ registry' = registry \cup {witness_id}
    /\ UNCHANGED <<instances, mcpWorkers, wk, docker, nextHandle,
                   pc, loc, live, last, implVars, runtimeVars>>

\* WorkerFactory.spawn: no await suspends inside, so one step
Spawn(p, definition, j, iso) ==
    /\ pc[p] = "idle"
    /\ IF JourneyPresent(j, instances)
       THEN /\ last' = Called("spawn", j, NoWorker, NoAction, "JourneyCollision")
            /\ UNCHANGED <<instances, wk, live>>
       ELSE IF ResolveDefinition(definition) = "error"
       THEN /\ last' = Called("spawn", j, NoWorker, NoAction, "DefinitionError")
            /\ UNCHANGED <<instances, wk, live>>
       ELSE /\ ~HeapFull
            /\ wk' = [wk EXCEPT ![NewId] = NewWorker(ResolveDefinition(definition), j, iso)]
            /\ instances' = Put(instances, j, NewId)
            /\ live' = live \cup {NewId}
            /\ last' = Called("spawn", j, NewId, NoAction, "ok")
    /\ UNCHANGED <<mcpWorkers, docker, nextHandle, registry, pc, loc, implVars, runtimeVars>>

\* WorkerFactory.resume (through WorkerFactory.get)
Resume(p, j) ==
    /\ pc[p] = "idle"
    /\ last' = Called("resume", j, Get(instances, j), NoAction,
                      IF Get(instances, j) = NoWorker THEN "UnknownJourney" ELSE "ok")
    /\ UNCHANGED <<factoryVars, implVars, runtimeVars>>

\* ClaudeCodeWorker.cleanup when no container is held: nothing to await
CleanedUp(worker) ==
    [worker EXCEPT !.container_spawned = FALSE]

\* ClaudeCodeWorker.cleanup after kill_container has returned
CleanedUpContainer(worker) ==
    [worker EXCEPT !.container_id = NoContainer, !.container_spawned = FALSE]

\* ContainerIsolation.kill_container: kill and remove the container, if it is there
KillContainer(h, dk) == { c \in dk : c.id # h }

\* WorkerFactory.kill for the journeys of todo, one after the other, up to the
\* first await that suspends (kill_container) or the first KeyError.
\* st holds the registry, the worker objects and the live set.
RECURSIVE KillRun(_, _)
KillRun(todo, st) ==
    IF todo = << >> THEN [st EXCEPT !.status = "done"]
    ELSE LET j == Head(todo)
             w == Get(st.instances, j)
         IN  IF ~JourneyPresent(j, st.instances)
             THEN [st EXCEPT !.status = "KeyError", !.j = j]
             ELSE LET popped == [st EXCEPT !.instances = Pop(st.instances, j),
                                           !.j = j, !.w = w]
                  IN  IF st.wk[w].container_id # NoContainer
                      THEN [popped EXCEPT !.status = "suspended",
                                          !.h = st.wk[w].container_id,
                                          !.todo = Tail(todo)]
                      ELSE KillRun(Tail(todo),
                                   [popped EXCEPT !.wk[w] = CleanedUp(st.wk[w]),
                                                  !.live = popped.live \ {w}])

KillState(inst, workers, lv, j, w) ==
    [instances |-> inst, wk |-> workers, live |-> lv, status |-> "running",
     j |-> j, w |-> w, h |-> NoContainer, todo |-> << >>]

\* _kill_worker: self.workers.pop(journey_id, None) once WorkerFactory.kill returned
McpAfterKill(ctx, status, j, workers) ==
    IF ctx = "kill_worker" /\ status = "done"
    THEN [workers EXCEPT ![j] = NoWorker]
    ELSE workers

\* what the caller of kill / kill_all / kill_worker gets
KillOutcome(ctx, status) ==
    IF status = "done" THEN "ok"
    ELSE IF ctx = "kill_worker" THEN "error_response" ELSE "KeyError"

\* apply the result r of KillRun for coroutine p, which called from context ctx
\* with journey j0 as its argument
ApplyKill(p, ctx, j0, r) ==
    /\ instances' = r.instances
    /\ live' = r.live
    /\ IF r.status = "suspended"
       THEN /\ pc' = [pc EXCEPT ![p] = "kill_container"]
            /\ loc' = [loc EXCEPT ![p] = [NoLoc EXCEPT !.op = "kill", !.ctx = ctx, !.j = r.j,
                                                      !.w = r.w, !.h = r.h, !.todo = r.todo]]
            /\ UNCHANGED <<last, mcpWorkers>>
       ELSE /\ Return(p)
            /\ mcpWorkers' = McpAfterKill(ctx, r.status, j0, mcpWorkers)
            /\ last' = Called(ctx, IF ctx = "kill_all" THEN "none" ELSE j0,
                              IF ctx = "kill_all" THEN NoWorker ELSE r.w,
                              NoAction, KillOutcome(ctx, r.status))
    /\ wk' = Collect(r.wk, instances', mcpWorkers', loc')

\* WorkerFactory.kill called directly
Kill(p, j) ==
    /\ pc[p] = "idle"
    /\ ApplyKill(p, "kill", j, KillRun(<< j >>, KillState(instances, wk, live, j, NoWorker)))
    /\ UNCHANGED <<docker, nextHandle, registry, implVars, runtimeVars>>

\* WorkerFactory.kill_all
KillAll(p) ==
    /\ pc[p] = "idle"
    /\ ApplyKill(p, "kill_all", "none",
                 KillRun(list_keys(instances), KillState(instances, wk, live, "none", NoWorker)))
    /\ UNCHANGED <<docker, nextHandle, registry, implVars, runtimeVars>>

\* WorkerMarketplaceMCP._kill_worker, under call_tool's except clause
McpKillWorker(p, j) ==
    /\ pc[p] = "idle"
    /\ IF mcpWorkers[j] = NoWorker
       THEN /\ last' = Called("kill_worker", j, NoWorker, NoAction, "no_worker")
            /\ UNCHANGED <<instances, wk, live, pc, loc, mcpWorkers>>
       ELSE ApplyKill(p, "kill_worker", j,
                      KillRun(<< j >>, KillState(instances, wk, live, j, NoWorker)))
    /\ UNCHANGED <<docker, nextHandle, registry, implVars, runtimeVars>>

\* kill_container has returned: cleanup() finishes, kill() returns and the
\* caller goes on (the next journey of kill_all, the pop of _kill_worker)
KillContainerDone(p) ==
    LET w == loc[p].w
        cleaned == [wk EXCEPT ![w] = CleanedUpContainer(wk[w])]
        st == KillState(instances, cleaned, live \ {w}, loc[p].j, w)
    IN  /\ pc[p] = "kill_container"
        /\ docker' = KillContainer(loc[p].h, docker)
        /\ ApplyKill(p, loc[p].ctx, loc[p].j, KillRun(loc[p].todo, st))
        /\ UNCHANGED <<nextHandle, registry, implVars, runtimeVars>>

----------------------------------------------------------------------------
(* ClaudeCodeWorker.void and ClaudeCodeWorker.execute *)

\* worker.void(action), called on a worker object the caller holds
Void(p, w, a) ==
    /\ pc[p] = "idle"
    /\ w \in Constructed
    /\ last' = [Called("void", wk[w].journey, w, a, "ok") EXCEPT
                   !.result = ClaudeCodeWorker_void(wk[w], a, registry),
                   !.invoked = verify(a, Definitions[wk[w].def].constraints, registry).invoked,
                   !.def = wk[w].def,
                   !.void_warnings = ClaudeCodeWorker_void(wk[w], a, registry).warnings,
                   !.calls = << "void" >>]
    /\ UNCHANGED <<factoryVars, implVars, runtimeVars>>

\* _ensure_container has to spawn: container isolation and nothing spawned yet
NeedsContainer(worker) ==
    worker.isolation_level = "container" /\ ~worker.container_spawned

\* execute runs the action in the container: container isolation and a handle
RunsInContainer(worker) ==
    worker.isolation_level = "container" /\ worker.container_id # NoContainer

\* execute's state update once the action has run
Executed(worker) == [worker EXCEPT !.action_count = worker.action_count + 1]

\* what the caller of execute / execute_in_worker gets when execute returned
\* (ok) or raised
ExecOutcome(ctx, ok) ==
    IF ctx = "execute_in_worker"
    THEN IF ok THEN "completed" ELSE "error_response"
    ELSE IF ok THEN "ok" ELSE "RuntimeError"

\* execute returns or raises in coroutine p, leaving the worker objects as
\* workers
ExecReturn(p, ctx, w, a, calls, vw, ok, workers) ==
    /\ last' = [Called(ctx, wk[w].journey, w, a, ExecOutcome(ctx, ok)) EXCEPT
                   !.result = IF ok THEN ClaudeCodeWorker_execute_result ELSE NoResult,
                   !.def = wk[w].def,
                   !.calls = calls,
                   !.void_warnings = vw]
    /\ Return(p)
    /\ wk' = Collect(workers, instances, mcpWorkers, loc')

\* ClaudeCodeWorker.execute up to its first suspension
ExecStart(p, ctx, w, a, calls, vw) ==
    LET frame == [NoLoc EXCEPT !.op = "execute", !.ctx = ctx, !.j = wk[w].journey,
                               !.w = w, !.a = a, !.calls = calls, !.void_warnings = vw]
    IN  /\ wk[w].action_count < MaxActions
        /\ IF NeedsContainer(wk[w])
           THEN /\ pc' = [pc EXCEPT ![p] = "spawn_container"]
                /\ loc' = [loc EXCEPT ![p] = frame]
                /\ UNCHANGED <<wk, last>>
           ELSE IF RunsInContainer(wk[w])
           THEN /\ pc' = [pc EXCEPT ![p] = "exec_in_container"]
                /\ loc' = [loc EXCEPT ![p] = [frame EXCEPT !.h = wk[w].container_id]]
                /\ UNCHANGED <<wk, last>>
           ELSE ExecReturn(p, ctx, w, a, calls, vw, TRUE, [wk EXCEPT ![w] = Executed(wk[w])])

\* worker.execute(action), called on a worker object the caller holds
Execute(p, w, a) ==
    /\ pc[p] = "idle"
    /\ w \in Constructed
    /\ ExecStart(p, "execute", w, a, << "execute" >>, << >>)
    /\ UNCHANGED <<instances, mcpWorkers, docker, nextHandle, registry, live, implVars, runtimeVars>>

\* the daemon refuses a second container of the same name worker_{journey}
NameTaken(j, dk) == \E c \in dk : c.name = j

\* ContainerIsolation.spawn_container returns (created) or raises RuntimeError;
\* on return _ensure_container stores the handle and execute goes on to
\* exec_in_container
SpawnContainerDone(p, created) ==
    LET w == loc[p].w
        h == nextHandle + 1
    IN  /\ pc[p] = "spawn_container"
        /\ IF created /\ ~NameTaken(loc[p].j, docker) /\ nextHandle < MaxContainers
           THEN /\ nextHandle' = h
                /\ docker' = docker \cup {[id |-> h, name |-> loc[p].j]}
                /\ wk' = [wk EXCEPT ![w].container_id = h, ![w].container_spawned = TRUE]
                /\ pc' = [pc EXCEPT ![p] = "exec_in_container"]
                /\ loc' = [loc EXCEPT ![p].h = h]
                /\ UNCHANGED last
           ELSE /\ ExecReturn(p, loc[p].ctx, w, loc[p].a, loc[p].calls, loc[p].void_warnings, FALSE, wk)
                /\ UNCHANGED <<nextHandle, docker>>
        /\ UNCHANGED <<instances, mcpWorkers, registry, live, implVars, runtimeVars>>

\* ContainerIsolation.exec_in_container returns (ran) or raises RuntimeError
\* (the container is gone, or the command timed out)
ExecInContainerDone(p, ran) ==
    LET w == loc[p].w
        ok == ran /\ (\E c \in docker : c.id = loc[p].h)
    IN  /\ pc[p] = "exec_in_container"
        /\ ExecReturn(p, loc[p].ctx, w, loc[p].a, loc[p].calls, loc[p].void_warnings, ok,
                      IF ok THEN [wk EXCEPT ![w] = Executed(wk[w])] ELSE wk)
        /\ UNCHANGED <<instances, mcpWorkers, docker, nextHandle, registry, live, implVars, runtimeVars>>

----------------------------------------------------------------------------
(* WorkerMarketplaceMCP: the tool interface, each tool under call_tool's
   except clause, which turns any exception into an error response *)

\* a tool server that looks up nothing before it spawns
InWorkers_never(j, workers) == FALSE

\* journey_id in self.workers
InWorkers(j, workers) == workers[j] # NoWorker

\* _spawn_worker
McpSpawnWorker(p, worker_id, j, iso) ==
    /\ pc[p] = "idle"
    /\ IF InWorkers(j, mcpWorkers)
       THEN /\ last' = Called("spawn_worker", j, mcpWorkers[j], NoAction, "already_exists")
            /\ UNCHANGED <<instances, mcpWorkers, wk, live>>
       ELSE IF worker_id \notin DefIds \/ JourneyPresent(j, instances)
       THEN /\ last' = Called("spawn_worker", j, NoWorker, NoAction, "error_response")
            /\ UNCHANGED <<instances, mcpWorkers, wk, live>>
       ELSE /\ ~HeapFull
            /\ wk' = [wk EXCEPT ![NewId] = NewWorker(worker_id, j, iso)]
            /\ instances' = Put(instances, j, NewId)
            /\ mcpWorkers' = [mcpWorkers EXCEPT ![j] = NewId]
            /\ live' = live \cup {NewId}
            /\ last' = Called("spawn_worker", j, NewId, NoAction, "spawned")
    /\ UNCHANGED <<docker, nextHandle, registry, pc, loc, implVars, runtimeVars>>

\* a tool server that executes whatever void returned
Refused_on_failure(void_result) == ~void_result.success

Refused_never(void_result) == FALSE

\* if void_result.warnings: the action is rejected
Refused(void_result) == void_result.warnings # << >>

\* _execute_in_worker
McpExecuteInWorker(p, j, a) ==
    LET w == mcpWorkers[j]
        void_result == ClaudeCodeWorker_void(wk[w], a, registry)
    IN  /\ pc[p] = "idle"
        /\ IF w = NoWorker
           THEN /\ last' = Called("execute_in_worker", j, NoWorker, a, "no_worker")
                /\ UNCHANGED <<wk, pc, loc>>
           ELSE IF Refused(void_result)
           THEN /\ last' = [Called("execute_in_worker", j, w, a, "constraint_violation")
                               EXCEPT !.result = void_result, !.def = wk[w].def,
                                      !.void_warnings = void_result.warnings,
                                      !.invoked = verify(a, Definitions[wk[w].def].constraints,
                                                         registry).invoked,
                                      !.calls = << "void" >>]
                /\ UNCHANGED <<wk, pc, loc>>
           ELSE ExecStart(p, "execute_in_worker", w, a, << "void", "execute" >>,
                          void_result.warnings)
        /\ UNCHANGED <<instances, mcpWorkers, docker, nextHandle, registry, live, implVars, runtimeVars>>

\* _get_worker_state
McpGetWorkerState(p, j) ==
    /\ pc[p] = "idle"
    /\ last' = Called("get_worker_state", j, mcpWorkers[j], NoAction,
                      IF mcpWorkers[j] = NoWorker THEN "no_worker" ELSE "ok")
    /\ UNCHANGED <<factoryVars, implVars, runtimeVars>>

----------------------------------------------------------------------------
(* The factory and the workers under concurrent callers *)

\* inputs: one definition (as an object and as a path that does not load)
\* and one action
SpecDefinitions == {"research", "missing.yaml"}
SpecActions == { Act("write", 1, "test.txt") }

Next ==
    \/ \E p \in Tasks, d \in SpecDefinitions, j \in Journeys, iso \in IsolationLevels :
           Spawn(p, d, j, iso)
    \/ \E p \in Tasks, j \in Journeys : Resume(p, j)
    \/ \E p \in Tasks, j \in Journeys : Kill(p, j)
    \/ \E p \in Tasks : KillAll(p)
    \/ \E p \in Tasks : KillContainerDone(p)
    \/ \E p \in Tasks, w \in WorkerIds, a \in SpecActions : Execute(p, w, a)
    \/ \E p \in Tasks, created \in BOOLEAN : SpawnContainerDone(p, created)
    \/ \E p \in Tasks, ran \in BOOLEAN : ExecInContainerDone(p, ran)

Spec == Init /\ [][Next]_vars

----------------------------------------------------------------------------
(* The tool interface and witness enforcement, driven by one caller at a
   time, over every action *)

Caller == 1
ToolJourneys == {"j1"}
ToolDefinitions == {"declared", "sandbox", "missing"}
ToolDefinitionInputs == {"declared", "sandbox", "missing.yaml"}

NextTool ==
    \/ \E witness_id \in UserWitnesses : Register(witness_id)
    \/ \E d \in ToolDefinitionInputs, j \in ToolJourneys, iso \in IsolationLevels :
           Spawn(Caller, d, j, iso)
    \/ \E j \in ToolJourneys : Resume(Caller, j)
    \/ \E j \in ToolJourneys : Kill(Caller, j)
    \/ KillContainerDone(Caller)
    \/ \E w \in WorkerIds, a \in ClaudeActions : Void(Caller, w, a)
    \/ \E w \in WorkerIds, a \in ClaudeActions : Execute(Caller, w, a)
    \/ \E created \in BOOLEAN : SpawnContainerDone(Caller, created)
    \/ \E ran \in BOOLEAN : ExecInContainerDone(Caller, ran)
    \/ \E d \in ToolDefinitions, j \in ToolJourneys, iso \in IsolationLevels :
           McpSpawnWorker(Caller, d, j, iso)
    \/ \E j \in ToolJourneys, a \in ClaudeActions : McpExecuteInWorker(Caller, j, a)
    \/ \E j \in ToolJourneys : McpGetWorkerState(Caller, j)
    \/ \E j \in ToolJourneys : McpKillWorker(Caller, j)

SpecTool == Init /\ [][NextTool]_vars

----------------------------------------------------------------------------
(* The tool interface under concurrent tool calls: call_tool handlers are
   coroutines of one event loop, and _execute_in_worker holds no lock *)

GateDefinitions == {"research"}

NextGate ==
    \/ \E p \in Tasks, d \in GateDefinitions, j \in Journeys, iso \in IsolationLevels :
           McpSpawnWorker(p, d, j, iso)
    \/ \E p \in Tasks, j \in Journeys, a \in SpecActions : McpExecuteInWorker(p, j, a)
    \/ \E p \in Tasks, created \in BOOLEAN : SpawnContainerDone(p, created)
    \/ \E p \in Tasks, ran \in BOOLEAN : ExecInContainerDone(p, ran)
    \/ \E p \in Tasks, j \in Journeys : McpKillWorker(p, j)
    \/ \E p \in Tasks : KillContainerDone(p)

SpecGate == Init /\ [][NextGate]_vars

----------------------------------------------------------------------------
(* BaseWorker contract checks *)

\* _validate_void_result raises ValueError on a void result that reports a
\* side effect
ValidateVoidRaises(result) == result.side_effect_occurred

\* _validate_execute_result would raise on a successful result without a side
\* effect; no worker and no caller ever calls it
ValidateExecuteRaises(result) == result.success /\ ~result.side_effect_occurred

----------------------------------------------------------------------------
(* DatabaseWorker over a database whose only table is "users"; a row is young
   or old, and the clause "age > 90" selects the old rows *)

large_deletion == 1000

DbAct(t, table, where, data, approved) ==
    [NoAction EXCEPT !.type = t, !.table = table, !.where = where, !.data = data,
                     !.approved = approved, !.worker_type = "db"]

DbActions ==
    { DbAct("select", tb, wh, "", FALSE) : tb \in {"", "users", "missing"}, wh \in {"", "age > 90", "bad"} }
    \cup { DbAct(t, tb, wh, "", ap) : t \in {"delete", "update"}, tb \in {"", "users", "missing"},
                                      wh \in {"", "age > 90", "bad"}, ap \in BOOLEAN }
    \cup { DbAct("insert", tb, "", d, ap) : tb \in {"", "users", "missing"},
                                            d \in {"", "young", "old"}, ap \in BOOLEAN }
    \cup { DbAct("drop", "users", "", "", FALSE) }

\* sqlite3.Error: no such table, or a clause that does not parse
SqlError(table, where) == table # "users" \/ where \notin {"", "age > 90"}

\* SELECT COUNT( * ) FROM table [WHERE where]
CountRows(d, where) == IF where = "" THEN d.young + d.old ELSE d.old

\* DELETE FROM table [WHERE where]
DeleteRows(d, where) ==
    IF where = "" THEN [d EXCEPT !.young = 0, !.old = 0] ELSE [d EXCEPT !.old = 0]

\* INSERT INTO table (...) VALUES (...)
InsertRow(d, data) ==
    IF data = "old" THEN [d EXCEPT !.old = d.old + 1] ELSE [d EXCEPT !.young = d.young + 1]

\* _ensure_connection
EnsureConnection(d) == [d EXCEPT !.conn = TRUE]

DbWarn(kind) == Warn(kind, "database")

ProductionWarning(d, kind) ==
    IF d.environment = "production" THEN << DbWarn(kind) >> ELSE << >>

\* a void that runs the statement instead of counting
DatabaseWorker_void_state_destructive(action, d) ==
    IF action.type = "delete" /\ action.table # "" /\ ~SqlError(action.table, action.where)
    THEN DeleteRows(EnsureConnection(d), action.where)
    ELSE EnsureConnection(d)

\* the database after DatabaseWorker.void: a connection is open, nothing else
DatabaseWorker_void_state(action, d) == EnsureConnection(d)

\* the VoidResult DatabaseWorker.void builds
DatabaseWorker_void(action, d) ==
    CASE action.type \in {"delete", "update"} ->
           IF action.table = ""
           THEN Result(FALSE, FALSE, << DbWarn("table_name_required") >>, "none")
           ELSE IF SqlError(action.table, action.where)
           THEN Result(FALSE, FALSE, << DbWarn("sql_error") >>, "none")
           ELSE [Result(TRUE, FALSE,
                        (IF action.type = "delete"
                         THEN IF CountRows(d, action.where) > large_deletion
                              THEN << DbWarn("large_deletion") >> ELSE << >>
                         ELSE IF action.where = ""
                              THEN << DbWarn("no_where_clause") >> ELSE << >>)
                        \o ProductionWarning(d, "requires_approval"),
                        "none")
                 EXCEPT !.affected_rows = CountRows(d, action.where)]
      [] action.type = "insert" ->
           Result(action.table # "" /\ action.data # "", FALSE,
                  (IF action.table = "" THEN << DbWarn("table_name_required") >> ELSE << >>)
                  \o (IF action.data = "" THEN << DbWarn("no_data_provided") >> ELSE << >>),
                  "none")
      [] action.type = "select" -> Result(TRUE, FALSE, << >>, "none")
      [] OTHER -> Result(FALSE, FALSE, << DbWarn("unknown_action_type") >>, "none")

\* the delete/update branches of void return before the contract check when
\* the table name is missing
DatabaseWorker_void_validated(action) ==
    ~(action.type \in {"delete", "update"} /\ action.table = "")

\* execute refuses a write in production that carries no approval
ProductionBlocked(action, d) ==
    /\ d.environment = "production"
    /\ action.type \in {"delete", "update", "insert"}
    /\ ~action.approved

\* the ExecutionResult DatabaseWorker.execute returns
DatabaseWorker_execute(action, d) ==
    CASE ProductionBlocked(action, d) -> Result(FALSE, FALSE, << >>, "production_write_blocked")
      [] action.type = "insert" /\ ~ProductionBlocked(action, d) ->
           IF action.table = "" \/ action.data = ""
           THEN Result(FALSE, FALSE, << >>, "table_and_data_required")
           ELSE IF SqlError(action.table, "")
           THEN Result(FALSE, FALSE, << >>, "sql_error")
           ELSE Result(TRUE, TRUE, << >>, "none")
      [] action.type = "delete" /\ ~ProductionBlocked(action, d) ->
           IF action.table = ""
           THEN Result(FALSE, FALSE, << >>, "table_name_required")
           ELSE IF SqlError(action.table, action.where)
           THEN Result(FALSE, FALSE, << >>, "sql_error")
           ELSE [Result(TRUE, TRUE, << >>, "none") EXCEPT !.affected_rows = CountRows(d, action.where)]
      [] action.type = "select" ->
           IF action.table = ""
           THEN Result(FALSE, FALSE, << >>, "table_name_required")
           ELSE IF SqlError(action.table, action.where)
           THEN Result(FALSE, FALSE, << >>, "sql_error")
           ELSE Result(TRUE, FALSE, << >>, "none")
      [] OTHER -> Result(FALSE, FALSE, << >>, "unknown_action_type")

\* the database after DatabaseWorker.execute
DatabaseWorker_execute_state(action, d) ==
    IF ~DatabaseWorker_execute(action, d).side_effect_occurred THEN EnsureConnection(d)
    ELSE IF action.type = "insert" THEN InsertRow(EnsureConnection(d), action.data)
    ELSE DeleteRows(EnsureConnection(d), action.where)

----------------------------------------------------------------------------
(* GitWorker over a repository: the current branch, the files staged for
   commit and the commits ahead of the tracking remote *)

GitAct(t, message, force) ==
    [NoAction EXCEPT !.type = t, !.message = message, !.force = force, !.worker_type = "git"]

GitActions ==
    { GitAct("commit", m, FALSE) : m \in {"", "Fix bug"} }
    \cup { GitAct("push", "", f) : f \in BOOLEAN }
    \cup { GitAct("status", "", FALSE), GitAct("pull", "", FALSE) }

GitWarn(kind) == Warn(kind, "git")

\* _check_push_constraints
check_push_constraints(action, g) ==
    IF g.branch = "main" /\ action.force THEN << GitWarn("no_force_push_to_main") >> ELSE << >>

\* the VoidResult GitWorker.void builds; it only reads the repository
GitWorker_void(action, g) ==
    CASE action.type = "push" ->
           Result(TRUE, FALSE, check_push_constraints(action, g), "none")
      [] action.type = "commit" ->
           Result(action.message # "", FALSE,
                  IF action.message = "" THEN << GitWarn("commit_message_required") >> ELSE << >>,
                  "none")
      [] action.type = "status" -> Result(TRUE, FALSE, << >>, "none")
      [] OTHER -> Result(FALSE, FALSE, << GitWarn("unknown_action_type") >>, "none")

\* the ExecutionResult GitWorker.execute returns; ran tells whether the git
\* subprocess exited with status 0
GitWorker_execute(action, g, ran) ==
    CASE action.type = "commit" ->
           IF action.message = "" THEN Result(FALSE, FALSE, << >>, "commit_message_required")
           ELSE IF ran /\ g.staged > 0 THEN Result(TRUE, TRUE, << >>, "none")
           ELSE Result(FALSE, FALSE, << >>, "git_failed")
      [] action.type = "push" ->
           IF g.branch = "main" /\ action.force
           THEN Result(FALSE, FALSE, << >>, "force_push_to_main_blocked")
           ELSE IF ran THEN Result(TRUE, TRUE, << >>, "none")
           ELSE Result(FALSE, FALSE, << >>, "git_failed")
      [] OTHER -> Result(FALSE, FALSE, << >>, "unknown_action_type")

\* the repository after GitWorker.execute
GitWorker_execute_state(action, g, ran) ==
    IF ~GitWorker_execute(action, g, ran).side_effect_occurred THEN g
    ELSE IF action.type = "commit" THEN [g EXCEPT !.staged = 0, !.ahead = g.ahead + 1]
    ELSE [g EXCEPT !.ahead = 0]

----------------------------------------------------------------------------
(* FileWorker *)

FileAct(t, target) ==
    [NoAction EXCEPT !.type = t, !.target = target, !.content_len = 1, !.worker_type = "file"]

FileActions == { FileAct("write", "out.txt"), FileAct("write", ""), FileAct("delete", "out.txt") }

FileWarn(kind) == Warn(kind, "file")

FileWorker_void(action) ==
    IF action.type = "write"
    THEN Result(action.target # "", FALSE,
                IF action.target = "" THEN << FileWarn("no_target") >> ELSE << >>, "none")
    ELSE Result(FALSE, FALSE, << FileWarn("unknown_action_type") >>, "none")

\* written tells whether Path(target).write_text returned
FileWorker_execute(action, written) ==
    IF action.type = "write"
    THEN IF action.target = "" THEN Result(FALSE, FALSE, << >>, "no_target")
         ELSE IF written THEN Result(TRUE, TRUE, << >>, "none")
         ELSE Result(FALSE, FALSE, << >>, "os_error")
    ELSE Result(FALSE, FALSE, << >>, "unknown_action_type")

FileWorker_execute_state(action, written, fs) ==
    IF FileWorker_execute(action, written).side_effect_occurred
    THEN fs \cup {action.target} ELSE fs

----------------------------------------------------------------------------
(* MockWorker *)

MockActions == { [NoAction EXCEPT !.type = "mock", !.worker_type = "mock"] }

MockWorker_void(m) ==
    Result(~m.void_should_fail, FALSE,
           IF m.void_warnings THEN << Warn("configured_warning", "mock") >> ELSE << >>, "none")

MockWorker_void_state(m) == [m EXCEPT !.void_calls = m.void_calls + 1]

MockWorker_execute(m) ==
    IF m.execute_should_fail THEN Result(FALSE, FALSE, << >>, "mock_execution_failure")
    ELSE Result(TRUE, TRUE, << >>, "none")

MockWorker_execute_state(m) == [m EXCEPT !.execute_calls = m.execute_calls + 1]

----------------------------------------------------------------------------
(* The stand-alone workers behind one interface, and ExecutorNode.execute *)

StandAlone == {"db", "git", "file", "mock"}

\* the VoidResult the worker of type impl builds for action a
VoidBuilt(impl, a) ==
    CASE impl = "db" -> DatabaseWorker_void(a, db)
      [] impl = "git" -> GitWorker_void(a, git)
      [] impl = "file" -> FileWorker_void(a)
      [] impl = "mock" -> MockWorker_void(mock)

\* whether that void passes its result through _validate_void_result
VoidValidated(impl, a) ==
    CASE impl = "db" -> DatabaseWorker_void_validated(a)
      [] impl = "git" -> TRUE
      [] impl = "file" -> FALSE
      [] impl = "mock" -> TRUE

VoidRaises(impl, a) == VoidValidated(impl, a) /\ ValidateVoidRaises(VoidBuilt(impl, a))

\* what void leaves behind in the worker and the system behind it
VoidEffect(impl, a) ==
    /\ db' = IF impl = "db" THEN DatabaseWorker_void_state(a, db) ELSE db
    /\ mock' = IF impl = "mock" THEN MockWorker_void_state(mock) ELSE mock

\* the ExecutionResult the worker of type impl returns for action a
ExecBuilt(impl, a, ran) ==
    CASE impl = "db" -> DatabaseWorker_execute(a, db)
      [] impl = "git" -> GitWorker_execute(a, git, ran)
      [] impl = "file" -> FileWorker_execute(a, ran)
      [] impl = "mock" -> MockWorker_execute(mock)

\* what execute leaves behind; d and m are the database and the mock worker
\* as the call finds them
ExecEffect(impl, a, ran, d, m) ==
    /\ db' = IF impl = "db" THEN DatabaseWorker_execute_state(a, d) ELSE d
    /\ git' = IF impl = "git" THEN GitWorker_execute_state(a, git, ran) ELSE git
    /\ files' = IF impl = "file" THEN FileWorker_execute_state(a, ran, files) ELSE files
    /\ mock' = IF impl = "mock" THEN MockWorker_execute_state(m) ELSE m

\* the call stays inside the bounds of the model
WithinBounds(impl, a, ran, calls) ==
    /\ (impl = "db" /\ a.type = "insert") => db.young + db.old < MaxRows
    /\ (impl = "git" /\ a.type = "commit") => git.ahead < MaxCommits
    /\ (impl = "mock" /\ "void" \in calls) => mock.void_calls < MaxCalls
    /\ (impl = "mock" /\ "execute" \in calls) => mock.execute_calls < MaxCalls

Returned(op, impl, a, outcome, result, calls, vw) ==
    [NoLast EXCEPT !.op = op, !.impl = impl, !.a = a, !.outcome = outcome,
                   !.result = result, !.calls = calls, !.void_warnings = vw]

\* worker.void(action) on a stand-alone worker
WorkerVoid(impl, a) ==
    /\ pc[Caller] = "idle"
    /\ impl \in nodeWorkers
    /\ WithinBounds(impl, a, FALSE, {"void"})
    /\ VoidEffect(impl, a)
    /\ last' = IF VoidRaises(impl, a)
               THEN Returned("void", impl, a, "ValueError", NoResult, << "void" >>, << >>)
               ELSE Returned("void", impl, a, "ok", VoidBuilt(impl, a), << "void" >>,
                             VoidBuilt(impl, a).warnings)
    /\ UNCHANGED <<factoryVars, runtimeVars, git, files, nodeWorkers>>

\* worker.execute(action) on a stand-alone worker
WorkerExecute(impl, a, ran) ==
    /\ pc[Caller] = "idle"
    /\ impl \in nodeWorkers
    /\ WithinBounds(impl, a, ran, {"execute"})
    /\ ExecEffect(impl, a, ran, db, mock)
    /\ last' = Returned("execute", impl, a, "ok", ExecBuilt(impl, a, ran), << "execute" >>, << >>)
    /\ UNCHANGED <<factoryVars, runtimeVars, nodeWorkers>>

\* the status of the entry ExecutorNode.execute appends for an execute result
Status(exec_result) == IF exec_result.success THEN "success" ELSE "failure"

\* a gate that lets a void with warnings through
Rejected_on_failure(void_result) == ~void_result.success

\* steps 3 of ExecutorNode.execute: void failed, or succeeded with warnings
Rejected(void_result) == ~void_result.success \/ void_result.warnings # << >>

\* ExecutorNode.execute(state): decided tells whether the state carries a
\* coordination decision, a is the decision's action
Dispatch(decided, a, ran) ==
    LET impl == a.worker_type
        void_result == VoidBuilt(impl, a)
    IN  /\ pc[Caller] = "idle"
        /\ nodeWorkers # {}
        /\ IF ~decided
           THEN /\ last' = Returned("dispatch", "none", NoAction, "no_decision", NoResult, << >>, << >>)
                /\ UNCHANGED <<db, git, files, mock>>
           ELSE IF impl \notin nodeWorkers
           THEN /\ last' = Returned("dispatch", "none", a, "error", NoResult, << >>, << >>)
                /\ UNCHANGED <<db, git, files, mock>>
           ELSE /\ WithinBounds(impl, a, ran, {"void", "execute"})
                /\ IF VoidRaises(impl, a)
                   THEN /\ last' = Returned("dispatch", impl, a, "ValueError", NoResult, << "void" >>, << >>)
                        /\ VoidEffect(impl, a)
                        /\ UNCHANGED <<git, files>>
                   ELSE IF Rejected(void_result)
                   THEN /\ last' = Returned("dispatch", impl, a, "rejected", void_result,
                                            << "void" >>, void_result.warnings)
                        /\ VoidEffect(impl, a)
                        /\ UNCHANGED <<git, files>>
                   ELSE /\ last' = Returned("dispatch", impl, a, Status(ExecBuilt(impl, a, ran)),
                                            ExecBuilt(impl, a, ran), << "void", "execute" >>, << >>)
                        /\ ExecEffect(impl, a, ran,
                                      IF impl = "db" THEN DatabaseWorker_void_state(a, db) ELSE db,
                                      IF impl = "mock" THEN MockWorker_void_state(mock) ELSE mock)
        /\ UNCHANGED <<factoryVars, runtimeVars, nodeWorkers>>

\* the status of the entry a call appended to the executions channel, "none"
\* when it appended none: ExecutorNode.execute returns one entry unless the
\* state carries no decision or a worker call raised; the tool interface
\* answers with text only and keeps no executions channel
EntryStatus(l) ==
    IF l.op = "dispatch" /\ l.outcome \in {"error", "rejected", "success", "failure"}
    THEN l.outcome
    ELSE "none"

----------------------------------------------------------------------------
(* One worker implementation at a time, called directly and through the
   ExecutorNode: a stand-alone worker registered with the node, or a
   ClaudeCodeWorker spawned by the factory for journey j1 *)

ImplDefinitions == {"research", "sandbox"}

DispatchActions == DbActions \cup GitActions \cup FileActions \cup MockActions

ActionsOf(impl) ==
    CASE impl = "db" -> DbActions
      [] impl = "git" -> GitActions
      [] impl = "file" -> FileActions
      [] impl = "mock" -> MockActions

InitDb ==
    /\ nodeWorkers = {"db"}
    /\ db \in [conn : {FALSE}, environment : {"development", "production"},
               young : 0..1, old : 0..1]
    /\ git = [branch |-> "main", staged |-> 0, ahead |-> 0]
    /\ files = {}
    /\ mock = [void_should_fail |-> FALSE, void_warnings |-> FALSE,
               execute_should_fail |-> FALSE, void_calls |-> 0, execute_calls |-> 0]

InitGit ==
    /\ nodeWorkers = {"git"}
    /\ git \in [branch : {"main", "feature"}, staged : 0..1, ahead : 0..MaxCommits]
    /\ db = [conn |-> FALSE, environment |-> "development", young |-> 0, old |-> 0]
    /\ files = {}
    /\ mock = [void_should_fail |-> FALSE, void_warnings |-> FALSE,
               execute_should_fail |-> FALSE, void_calls |-> 0, execute_calls |-> 0]

InitFile ==
    /\ nodeWorkers = {"file"}
    /\ files = {}
    /\ db = [conn |-> FALSE, environment |-> "development", young |-> 0, old |-> 0]
    /\ git = [branch |-> "main", staged |-> 0, ahead |-> 0]
    /\ mock = [void_should_fail |-> FALSE, void_warnings |-> FALSE,
               execute_should_fail |-> FALSE, void_calls |-> 0, execute_calls |-> 0]

InitMock ==
    /\ nodeWorkers = {"mock"}
    /\ mock \in [void_should_fail : BOOLEAN, void_warnings : BOOLEAN,
                 execute_should_fail : BOOLEAN, void_calls : {0}, execute_calls : {0}]
    /\ db = [conn |-> FALSE, environment |-> "development", young |-> 0, old |-> 0]
    /\ git = [branch |-> "main", staged |-> 0, ahead |-> 0]
    /\ files = {}

\* the state WorkerFactory.spawn(def, "j1", iso) leaves behind
InitClaude ==
    \E def \in ImplDefinitions, iso \in IsolationLevels, reg \in SUBSET UserWitnesses :
        /\ nodeWorkers = {}
        /\ instances = << [j |-> "j1", w |-> 1] >>
        /\ wk = [w \in WorkerIds |-> IF w = 1 THEN NewWorker(def, "j1", iso) ELSE FreeWorker]
        /\ live = {1}
        /\ registry = BuiltinWitnesses \cup reg
        /\ db = [conn |-> FALSE, environment |-> "development", young |-> 0, old |-> 0]
        /\ git = [branch |-> "main", staged |-> 0, ahead |-> 0]
        /\ files = {}
        /\ mock = [void_should_fail |-> FALSE, void_warnings |-> FALSE,
                   execute_should_fail |-> FALSE, void_calls |-> 0, execute_calls |-> 0]

InitImpl ==
    /\ RuntimeIdle
    /\ mcpWorkers = [j \in Journeys |-> NoWorker]
    /\ docker = {}
    /\ nextHandle = 0
    /\ pc = [p \in Tasks |-> "idle"]
    /\ loc = [p \in Tasks |-> NoLoc]
    /\ last = NoLast
    /\ \/ InitClaude
       \/ /\ instances = << >>
          /\ wk = [w \in WorkerIds |-> FreeWorker]
          /\ live = {}
          /\ registry = BuiltinWitnesses
          /\ (InitDb \/ InitGit \/ InitFile \/ InitMock)

NextImpl ==
    \/ \E impl \in StandAlone : \E a \in ActionsOf(impl) : WorkerVoid(impl, a)
    \/ \E impl \in StandAlone : \E a \in ActionsOf(impl), ran \in BOOLEAN :
           WorkerExecute(impl, a, ran)
    \/ \E decided \in BOOLEAN, a \in DispatchActions, ran \in BOOLEAN : Dispatch(decided, a, ran)
    \/ \E w \in WorkerIds, a \in ClaudeActions : Void(Caller, w, a)
    \/ \E w \in WorkerIds, a \in ClaudeActions : Execute(Caller, w, a)
    \/ \E created \in BOOLEAN : SpawnContainerDone(Caller, created)
    \/ \E ran \in BOOLEAN : ExecInContainerDone(Caller, ran)

SpecImpl == InitImpl /\ [][NextImpl]_vars

----------------------------------------------------------------------------
(* Definition validation: validate_worker_definition on a definition, and
   void on a worker constructed from that definition *)

WorkerIdSamples == {"", "bad id", "timed_v1"}
\* re.match(r'^[a-zA-Z0-9_]+$', worker_id)
WorkerIdMatches(worker_id) == worker_id \in {"timed_v1"}

PromptSamples == {"You are a research assistant", "eval(input)"}
\* re.search of a FORBIDDEN_PATTERNS entry in a text field
MatchesForbidden(text) == text \in {"eval(input)"}

WitnessSamples ==
    {"", "response_time_under_5s", "verify_file_size_within_limit", "mock_witness_raises"}
TrustLevelSamples == {"sandboxed", "root"}
valid_trust_levels == {"trusted", "sandboxed", "restricted"}

ConstraintLists ==
    UNION { [1..n -> WitnessSamples] : n \in 0..MaxConstraints }

Candidates ==
    { [worker_id |-> id, system_prompt |-> text,
       constraints |-> [i \in DOMAIN ws |-> Constraint("c", ws[i])],
       trust_level |-> t] :
         id \in WorkerIdSamples, text \in PromptSamples,
         ws \in ConstraintLists, t \in TrustLevelSamples }

\* validate_worker_definition: "valid" for (True, None), otherwise the check
\* that failed
validate_worker_definition(worker) ==
    IF worker.worker_id = "" THEN "empty_worker_id"
    ELSE IF ~WorkerIdMatches(worker.worker_id) THEN "invalid_worker_id"
    ELSE IF MatchesForbidden(worker.system_prompt)
            \/ \E i \in DOMAIN worker.constraints :
                   MatchesForbidden(worker.constraints[i].witness)
    THEN "forbidden_pattern"
    ELSE IF \E i \in DOMAIN worker.constraints :
                /\ worker.constraints[i].witness # ""
                /\ worker.constraints[i].witness \notin WITNESS_REGISTRY
    THEN "unknown_witness"
    ELSE IF worker.trust_level \notin valid_trust_levels THEN "invalid_trust_level"
    ELSE "valid"

\* the validator is handed a definition
Validate ==
    /\ last.op = "candidate"
    /\ last' = [last EXCEPT !.op = "validate",
                            !.outcome = validate_worker_definition(last.candidate)]
    /\ UNCHANGED <<factoryVars, implVars, runtimeVars>>

\* ClaudeCodeWorker(definition).void(action) for the definition just accepted
VoidCandidate(a) ==
    /\ last.op = "validate" /\ last.outcome = "valid"
    /\ LET v == verify(a, last.candidate.constraints, registry)
       IN  last' = [last EXCEPT !.op = "void", !.a = a, !.outcome = "ok",
                               !.impl = "claude_code",
                               !.result = Result(TRUE, FALSE, v.warnings, "none"),
                               !.invoked = v.invoked,
                               !.void_warnings = v.warnings]
    /\ UNCHANGED <<factoryVars, implVars, runtimeVars>>

InitValidate ==
    /\ instances = << >>
    /\ mcpWorkers = [j \in Journeys |-> NoWorker]
    /\ wk = [w \in WorkerIds |-> FreeWorker]
    /\ docker = {}
    /\ nextHandle = 0
    /\ registry = BuiltinWitnesses
    /\ pc = [p \in Tasks |-> "idle"]
    /\ loc = [p \in Tasks |-> NoLoc]
    /\ live = {}
    /\ \E d \in Candidates : last = [NoLast EXCEPT !.op = "candidate", !.candidate = d]
    /\ db = [conn |-> FALSE, environment |-> "development", young |-> 0, old |-> 0]
    /\ git = [branch |-> "main", staged |-> 0, ahead |-> 0]
    /\ files = {}
    /\ mock = [void_should_fail |-> FALSE, void_warnings |-> FALSE,
               execute_should_fail |-> FALSE, void_calls |-> 0, execute_calls |-> 0]
    /\ nodeWorkers = {}
    /\ RuntimeIdle

NextValidate ==
    \/ \E witness_id \in UserWitnesses : Register(witness_id)
    \/ Validate
    \/ \E a \in ClaudeActions : VoidCandidate(a)

SpecValidate == InitValidate /\ [][NextValidate]_vars

----------------------------------------------------------------------------
(* Agent injection: WorkflowExecutor._inject_claude_code_nodes on the
   StateGraph builder a workflow module exports *)

START == "__start__"
END == "__end__"

\* templates/with_claude_code: the preparation nodes and their edges
TemplateGraph ==
    [nodes |-> {"prepare_research", "prepare_write", "prepare_review"},
     edges |-> { << START, "prepare_research" >>,
                 << "prepare_research", "prepare_write" >>,
                 << "prepare_write", "prepare_review" >>,
                 << "prepare_review", END >> }]

\* an entry of claude_code_config["agents"]; "" stands for a key that is
\* not given
AgentConfig(role_name, inject_after, inject_before, provider) ==
    [role_name |-> role_name, inject_after |-> inject_after,
     inject_before |-> inject_before, provider |-> provider]

\* templates/with_claude_code: claude_code_config["agents"]
claude_code_config ==
    << AgentConfig("researcher", "prepare_research", "", ""),
       AgentConfig("writer", "prepare_write", "", ""),
       AgentConfig("reviewer", "prepare_review", "", "") >>

\* node_name = f"{role_name}_agent"
node_name(role_name) ==
    CASE role_name = "researcher" -> "researcher_agent"
      [] role_name = "writer" -> "writer_agent"
      [] role_name = "reviewer" -> "reviewer_agent"
      [] OTHER -> "_agent"

Providers == {"claude_code", "ollama", "gpt"}
SupportedProviders == {"ollama", "claude_code"}

\* agent_config.get("provider", "claude_code")
ProviderOf(agent_config) ==
    IF agent_config.provider = "" THEN "claude_code" ELSE agent_config.provider

\* provider_config.get("enabled", False) for the provider_config the executor
\* passes on: the entry of llm_providers, or {"enabled": True} when there is
\* none
provider_enabled(llm_providers, provider) ==
    IF llm_providers[provider] = "absent" THEN TRUE
    ELSE llm_providers[provider] = "enabled"

\* create_agent_node: "node" when it returns a node function, otherwise the
\* ValueError it raises
create_agent_node(provider_type, enabled) ==
    IF ~enabled THEN "ValueError: not enabled"
    ELSE IF provider_type \in SupportedProviders THEN "node"
    ELSE "ValueError: Unknown provider"

\* the loop body of _inject_claude_code_nodes gets as far as add_node/add_edge
Injects(agent_config, llm_providers) ==
    /\ agent_config.role_name # "" /\ agent_config.inject_after # ""
    /\ create_agent_node(ProviderOf(agent_config),
                         provider_enabled(llm_providers, ProviderOf(agent_config))) = "node"

\* add_node(node_name), add_edge(inject_after, node_name) and, if inject_before
\* is given, add_edge(node_name, inject_before)
InjectOne(g, agent_config) ==
    LET n == node_name(agent_config.role_name)
    IN  [nodes |-> g.nodes \cup {n},
         edges |-> g.edges \cup { << agent_config.inject_after, n >> }
                      \cup (IF agent_config.inject_before # ""
                            THEN { << n, agent_config.inject_before >> } ELSE {})]

\* the for loop over the agents, from entry i on
RECURSIVE InjectFrom(_, _, _, _)
InjectFrom(i, agents, llm_providers, g) ==
    IF i > Len(agents) THEN g
    ELSE InjectFrom(i + 1, agents, llm_providers,
                    IF Injects(agents[i], llm_providers) THEN InjectOne(g, agents[i]) ELSE g)

\* _inject_claude_code_nodes(workflow, module)
inject_claude_code_nodes(g, agents, llm_providers) == InjectFrom(1, agents, llm_providers, g)

\* the roles whose agent the loop gave up on with 'continue'
SkippedRoles(agents, llm_providers) ==
    { agents[i].role_name : i \in { k \in DOMAIN agents : ~Injects(agents[k], llm_providers) } }

----------------------------------------------------------------------------
(* Checkpointer creation and ResilientPostgresCheckpointer.__aenter__ *)

default_max_retries == 3
default_retry_delays == << 1, 2, 4 >>

\* ResilientPostgresCheckpointer.__init__; << >> stands for retry_delays=None
ResilientPostgresCheckpointer(max_retries, retry_delays) ==
    [NoStore EXCEPT !.kind = "resilient", !.max_retries = max_retries,
                    !.retry_delays = IF retry_delays = << >> THEN default_retry_delays
                                     ELSE retry_delays,
                    !.status = "created"]

CheckpointerConfigs == {"sqlite", "postgresql", "postgresql_no_url", "redis"}

\* self.config.get("checkpointer") is empty: no checkpointer is created
NoCheckpointer == "none"

\* create_checkpointer(config): the context manager it returns, or the
\* ValueError it raises
create_checkpointer(config) ==
    CASE config = "sqlite" -> [NoStore EXCEPT !.kind = "sqlite", !.status = "created"]
      [] config = "postgresql" ->
             ResilientPostgresCheckpointer(default_max_retries, default_retry_delays)
      [] OTHER -> [NoStore EXCEPT !.status = "raised", !.error = "ValueError"]

\* the degraded-mode messages are logged and the fallback store is opened
FallBack(st) == [st EXCEPT !.status = "fallback_opening", !.degraded = TRUE]

\* __aenter__ up to its first await
EnterStart(st) ==
    IF st.kind = "resilient" /\ st.max_retries = 0 THEN FallBack(st)
    ELSE [st EXCEPT !.status = "connecting", !.attempt = 0]

\* a retry loop that sleeps and tries again after the last attempt as well
AttemptFailed_one_more(st) ==
    IF st.attempt < st.max_retries
    THEN IF st.attempt + 1 > Len(st.retry_delays)
         THEN [st EXCEPT !.status = "raised", !.error = "IndexError"]
         ELSE [st EXCEPT !.status = "sleeping",
                         !.slept = Append(st.slept, st.retry_delays[st.attempt + 1])]
    ELSE FallBack(st)

\* the except branch of the retry loop for attempt st.attempt (counted from 0):
\* sleep retry_delays[attempt] unless this was the last attempt, then fall back
AttemptFailed(st) ==
    IF st.attempt < st.max_retries - 1
    THEN IF st.attempt + 1 > Len(st.retry_delays)
         THEN [st EXCEPT !.status = "raised", !.error = "IndexError"]
         ELSE [st EXCEPT !.status = "sleeping",
                         !.slept = Append(st.slept, st.retry_delays[st.attempt + 1])]
    ELSE FallBack(st)

\* the store after the connection attempt in flight has returned (ok) or
\* raised
Attempted(st, ok) ==
    LET counted == [st EXCEPT !.attempts = st.attempts + 1]
    IN  IF ok
        THEN [counted EXCEPT !.status = "open",
                             !.backend = IF st.kind = "sqlite" THEN "sqlite" ELSE "postgres"]
        ELSE IF st.kind = "sqlite"
        THEN [counted EXCEPT !.status = "raised", !.error = "OperationalError"]
        ELSE AttemptFailed(counted)

\* "if LangfuseTracer.is_enabled(): flush_traces()", as it stands before the
\* return and in the except clause
Flushed(r) ==
    IF r.tracing THEN [r EXCEPT !.flushed = @ + 1, !.order = Append(@, "flush")]
    ELSE r

\* a finally clause that releases only what was entered without error
Released_unless_raised(r) ==
    IF r.cm /\ r.phase # "raised"
    THEN [r EXCEPT !.released = @ + 1, !.order = Append(@, "release")]
    ELSE r

\* the finally clause: checkpointer_cm.__aexit__ when checkpointer_cm is set,
\* errors of the cleanup ignored
Released(r) ==
    IF r.cm THEN [r EXCEPT !.released = @ + 1, !.order = Append(@, "release")]
    ELSE r

\* an except clause that re-raises without flushing
Fails_without_flush(r, error) ==
    [Released([r EXCEPT !.phase = "raised", !.error = error])
        EXCEPT !.order = Append(@, "raise")]

\* aexecute leaves through "except Exception": flush, re-raise, finally
Fails(r, error) ==
    [Released(Flushed([r EXCEPT !.phase = "raised", !.error = error]))
        EXCEPT !.order = Append(@, "raise")]

\* aexecute returns the final state: flush, return, finally
Returns(r) ==
    [Released(Flushed([r EXCEPT !.phase = "done"])) EXCEPT !.order = Append(@, "return")]

\* the task running aexecute is cancelled while it awaits ainvoke:
\* CancelledError is not an Exception, so only the finally clause runs
Cancelled(r) ==
    [Released([r EXCEPT !.phase = "cancelled", !.error = "CancelledError"])
        EXCEPT !.order = Append(@, "raise")]

\* aexecute once the checkpointer context manager has been entered or has
\* raised: compile and call ainvoke, or leave through the except clause
Entered(r, st) ==
    IF r.phase # "opening" THEN r
    ELSE IF st.status = "open" THEN [r EXCEPT !.phase = "invoking"]
    ELSE IF st.status = "raised" THEN Fails(r, st.error)
    ELSE r

----------------------------------------------------------------------------
(* WorkflowExecutor.aexecute, and a ResilientPostgresCheckpointer entered on
   its own *)

AgentConfigs(role_name, inject_after) ==
    { AgentConfig(role_name, after, before, provider) :
        after \in {"", inject_after}, before \in {"", "prepare_review"},
        provider \in {"", "ollama", "gpt"} }

AgentRoles == << "researcher", "writer", "reviewer" >>
AgentAnchors == << "prepare_research", "prepare_write", "prepare_review" >>

\* the agents lists of a workflow module: the template's own, and lists of up
\* to MaxAgents entries
AgentLists ==
    {claude_code_config} \cup
    UNION { { agents \in [1..n -> UNION { AgentConfigs(AgentRoles[k], AgentAnchors[k]) : k \in 1..n }] :
                \A k \in 1..n : agents[k] \in AgentConfigs(AgentRoles[k], AgentAnchors[k]) } :
            n \in 1..MaxAgents }

\* config["llm_providers"]: per provider no entry, an enabled or a disabled one
LlmProviderConfigs ==
    [claude_code : {"absent", "disabled"}, ollama : {"enabled", "disabled"},
     gpt : {"absent", "enabled"}]

RetryDelayLists == { << >>, << 1 >>, default_retry_delays }

\* aexecute from its call to the await on the checkpointer's __aenter__ (or
\* to the ValueError create_checkpointer raises)
AExecuteStart(agents, llm_providers, config, tracing) ==
    LET cm == IF config = NoCheckpointer THEN NoStore ELSE create_checkpointer(config)
        entering == IF config = NoCheckpointer \/ cm.status = "raised" THEN cm
                    ELSE EnterStart(cm)
        r == [run EXCEPT !.phase = "opening", !.agents = agents,
                         !.llm_providers = llm_providers, !.checkpointer = config,
                         !.skipped = SkippedRoles(agents, llm_providers),
                         !.tracing = tracing,
                         !.cm = config # NoCheckpointer /\ cm.status # "raised"]
    IN  /\ run.phase = "idle" /\ store = NoStore
        /\ graph' = inject_claude_code_nodes(graph, agents, llm_providers)
        /\ store' = entering
        /\ run' = IF config = NoCheckpointer THEN [r EXCEPT !.phase = "invoking"]
                  ELSE Entered(r, entering)
        /\ UNCHANGED <<factoryVars, implVars, last, thread, sideVars>>

\* aexecute on a path that cannot be loaded or holds no workflow: the except
\* clause is reached before any checkpointer exists
LoadFails(tracing) ==
    /\ run.phase = "idle" /\ store = NoStore
    /\ run' = Fails([run EXCEPT !.tracing = tracing], "load")
    /\ UNCHANGED <<factoryVars, implVars, last, thread, graph, store, sideVars>>

\* async with ResilientPostgresCheckpointer(url, max_retries, retry_delays)
AsyncWith(max_retries, retry_delays) ==
    /\ run.phase = "idle" /\ store = NoStore
    /\ store' = EnterStart(ResilientPostgresCheckpointer(max_retries, retry_delays))
    /\ run' = [run EXCEPT !.phase = "direct"]
    /\ UNCHANGED <<factoryVars, implVars, last, thread, graph, sideVars>>

\* the connection attempt in flight returns (ok) or raises
ConnectDone(ok) ==
    /\ store.status = "connecting"
    /\ store' = Attempted(store, ok)
    /\ run' = Entered(run, store')
    /\ UNCHANGED <<factoryVars, implVars, last, thread, graph, sideVars>>

\* asyncio.sleep(delay) returns and the loop goes to its next attempt
SleepDone ==
    /\ store.status = "sleeping"
    /\ store' = [store EXCEPT !.status = "connecting", !.attempt = store.attempt + 1]
    /\ UNCHANGED <<factoryVars, implVars, last, thread, graph, run, sideVars>>

\* the fallback AsyncSqliteSaver is entered (ok) or raises
FallbackDone(ok) ==
    /\ store.status = "fallback_opening"
    /\ store' = IF ok THEN [store EXCEPT !.status = "open", !.backend = "sqlite_fallback"]
                ELSE [store EXCEPT !.status = "raised", !.error = "OperationalError"]
    /\ run' = Entered(run, store')
    /\ UNCHANGED <<factoryVars, implVars, last, thread, graph, sideVars>>

\* how the await on workflow.ainvoke ends: it returns the final state, a
\* node raises, the checkpoint saver raises on a write, or the task is
\* cancelled
InvokeOutcomes == {"state", "node", "checkpoint write", "CancelledError"}

\* workflow.ainvoke ends; the rest of aexecute up to its return or raise.
\* The compiled workflow holds the saver __aenter__ returned, so an error of
\* the saver comes out of ainvoke like an error of a node
InvokeDone(outcome) ==
    /\ run.phase = "invoking"
    /\ outcome = "checkpoint write" => store.status = "open"
    /\ run' = CASE outcome = "state" -> Returns(run)
                [] outcome = "CancelledError" -> Cancelled(run)
                [] OTHER -> Fails(run, outcome)
    /\ store' = IF run.cm THEN [store EXCEPT !.status = "closed"] ELSE store
    /\ UNCHANGED <<factoryVars, implVars, last, thread, graph, sideVars>>

InitExec ==
    /\ instances = << >>
    /\ mcpWorkers = [j \in Journeys |-> NoWorker]
    /\ wk = [w \in WorkerIds |-> FreeWorker]
    /\ docker = {}
    /\ nextHandle = 0
    /\ registry = BuiltinWitnesses
    /\ pc = [p \in Tasks |-> "idle"]
    /\ loc = [p \in Tasks |-> NoLoc]
    /\ live = {}
    /\ last = NoLast
    /\ db = [conn |-> FALSE, environment |-> "development", young |-> 0, old |-> 0]
    /\ git = [branch |-> "main", staged |-> 0, ahead |-> 0]
    /\ files = {}
    /\ mock = [void_should_fail |-> FALSE, void_warnings |-> FALSE,
               execute_should_fail |-> FALSE, void_calls |-> 0, execute_calls |-> 0]
    /\ nodeWorkers = {}
    /\ graph = TemplateGraph
    /\ run = NoRun
    /\ store = NoStore
    /\ thread = NoThread
    /\ dashboard = NoDashboard
    /\ loop = NoLoop

NextExec ==
    \/ \E agents \in AgentLists, llm_providers \in LlmProviderConfigs,
          config \in CheckpointerConfigs \cup {NoCheckpointer}, tracing \in BOOLEAN :
              AExecuteStart(agents, llm_providers, config, tracing)
    \/ \E tracing \in BOOLEAN : LoadFails(tracing)
    \/ \E max_retries \in 0..MaxRetries, retry_delays \in RetryDelayLists :
           AsyncWith(max_retries, retry_delays)
    \/ \E ok \in BOOLEAN : ConnectDone(ok)
    \/ SleepDone
    \/ \E ok \in BOOLEAN : FallbackDone(ok)
    \/ \E outcome \in InvokeOutcomes : InvokeDone(outcome)

SpecExec == InitExec /\ [][NextExec]_vars

----------------------------------------------------------------------------
(* Agent nodes: one role's agent run again and again on one thread_id *)

SessionIds == {"sess-1", "sess-2"}

\* the three agent implementations: the node of create_claude_code_node, the
\* ClaudeCodeProvider and the node of create_ollama_node
AgentProviders == {"claude_code_node", "ClaudeCodeProvider", "ollama"}

\* Python truthiness of a value of {role}_session_id
Truthy(session_id) == session_id \notin {Absent, None, ""}

\* the transport call raises (time-out, CLI error, connection refused)
Raised == "<raised>"

\* what the transport answers: a session id, an answer without one, or an
\* exception
TransportAnswers == SessionIds \cup {None, Raised}

\* what an answer gives the node to return: nothing when the call raised
SessionOf(answer) == IF answer = Raised THEN None ELSE answer
UpdateOf(answer) == IF answer = Raised THEN Absent ELSE answer

\* create_claude_code_node.agent_node(state): without a task it raises;
\* otherwise it passes state's session id to mesh_execute when it is truthy
\* and returns the id parsed from "Session ID: ..." (None when no text has it)
agent_node(session_id, task, answer) ==
    IF ~task THEN [NoCall EXCEPT !.read = Absent]
    ELSE [task |-> TRUE, read |-> session_id, called |-> TRUE,
          hint |-> IF Truthy(session_id) THEN session_id ELSE NoHint,
          returned |-> SessionOf(answer), update |-> UpdateOf(answer),
          error |-> NoError, result |-> NoProcess]

\* what the claude CLI wrote to stdout: nothing that parses as JSON, a JSON
\* object, a JSON object with "is_error": true, or JSON that is no object
StdoutKinds == {"not json", "json", "is_error json", "json array"}

\* subprocess.run: it times out, or completes with an exit code, stdout (a
\* JSON object may carry a session_id) and stderr
CompletedProcesses ==
    [timeout : BOOLEAN, returncode : {0, 1}, stdout : StdoutKinds,
     session : SessionIds \cup {None}, stderr : {"", "boom"}]

RuntimeError(message, carries) ==
    [type |-> "RuntimeError", message |-> message, carries |-> carries]

\* ClaudeCodeProvider._handle_error(result): the exception it raises
handle_error(result) ==
    IF result.returncode = 0 THEN NoError
    ELSE IF result.stdout = "is_error json"
    THEN RuntimeError("Claude Code error", "result")
    ELSE IF result.stdout = "json array"
    THEN [type |-> "AttributeError", message |-> "no attribute 'get'", carries |-> "none"]
    ELSE RuntimeError("Claude Code CLI failed",
                      IF result.stderr = "" THEN "Unknown error" ELSE result.stderr)

\* the exception ClaudeCodeProvider.execute_task raises on a subprocess
\* result: time-out, _handle_error, json.loads, _parse_response
ProviderError(result) ==
    IF result.timeout THEN RuntimeError("Claude Code CLI timed out", "timeout")
    ELSE IF handle_error(result) # NoError THEN handle_error(result)
    ELSE IF result.stdout = "not json"
    THEN RuntimeError("Failed to parse CLI response", "stdout")
    ELSE IF result.stdout = "json array"
    THEN [type |-> "AttributeError", message |-> "no attribute 'get'", carries |-> "none"]
    ELSE NoError

\* what execute_task gets out of the subprocess: response.get("session_id")
AnswerOf(result) ==
    IF ProviderError(result) # NoError THEN Raised ELSE result.session

\* ClaudeCodeProvider.execute_task(task, state, config): --resume is put on
\* the command line when state's session id is truthy; the update carries
\* response.get("session_id")
execute_task(session_id, task, result) ==
    [task |-> task, read |-> session_id, called |-> TRUE,
     hint |-> IF Truthy(session_id) THEN session_id ELSE NoHint,
     returned |-> SessionOf(AnswerOf(result)), update |-> UpdateOf(AnswerOf(result)),
     error |-> ProviderError(result), result |-> result]

\* create_ollama_node.ollama_node(state): without a task it returns the
\* placeholder "no-session"; otherwise OllamaProvider.execute_task, which
\* never looks at the state, sends the task alone and returns response.id
ollama_node(session_id, task, answer) ==
    IF ~task
    THEN [NoCall EXCEPT !.update = "no-session"]
    ELSE [task |-> TRUE, read |-> Absent, called |-> TRUE, hint |-> NoHint,
          returned |-> SessionOf(answer), update |-> UpdateOf(answer),
          error |-> NoError, result |-> NoProcess]

\* the thread after a run whose agent node made this call: the update
\* overwrites {role}_session_id (a plain TypedDict field of WorkflowState)
AfterRun(t, call) ==
    [t EXCEPT !.call = call,
              !.state = IF call.update = Absent THEN t.state ELSE call.update,
              !.session = IF call.called /\ call.returned \in SessionIds
                          THEN call.returned ELSE t.session,
              !.runs = t.runs + 1]

\* a run on the thread reaches the role's claude_code agent node
ClaudeCodeNodeRun(task, answer) ==
    /\ thread.provider = "claude_code_node" /\ thread.runs < MaxRuns
    /\ thread' = AfterRun(thread, agent_node(thread.state, task, answer))
    /\ UNCHANGED <<factoryVars, implVars, last, graph, run, store, sideVars>>

\* a run on the thread reaches an agent driven by the ClaudeCodeProvider
ClaudeCodeProviderRun(task, result) ==
    /\ thread.provider = "ClaudeCodeProvider" /\ thread.runs < MaxRuns
    /\ thread' = AfterRun(thread, execute_task(thread.state, task, result))
    /\ UNCHANGED <<factoryVars, implVars, last, graph, run, store, sideVars>>

\* a run on the thread reaches the role's ollama agent node; an Ollama
\* response always carries an id
OllamaNodeRun(task, answer) ==
    /\ thread.provider = "ollama" /\ thread.runs < MaxRuns
    /\ thread' = AfterRun(thread, ollama_node(thread.state, task, answer))
    /\ UNCHANGED <<factoryVars, implVars, last, graph, run, store, sideVars>>

InitAgent ==
    /\ instances = << >>
    /\ mcpWorkers = [j \in Journeys |-> NoWorker]
    /\ wk = [w \in WorkerIds |-> FreeWorker]
    /\ docker = {}
    /\ nextHandle = 0
    /\ registry = BuiltinWitnesses
    /\ pc = [p \in Tasks |-> "idle"]
    /\ loc = [p \in Tasks |-> NoLoc]
    /\ live = {}
    /\ last = NoLast
    /\ db = [conn |-> FALSE, environment |-> "development", young |-> 0, old |-> 0]
    /\ git = [branch |-> "main", staged |-> 0, ahead |-> 0]
    /\ files = {}
    /\ mock = [void_should_fail |-> FALSE, void_warnings |-> FALSE,
               execute_should_fail |-> FALSE, void_calls |-> 0, execute_calls |-> 0]
    /\ nodeWorkers = {}
    /\ graph = TemplateGraph
    /\ run = NoRun
    /\ store = NoStore
    /\ \E provider \in AgentProviders : thread = [NoThread EXCEPT !.provider = provider]
    /\ dashboard = NoDashboard
    /\ loop = NoLoop

NextAgent ==
    \/ \E task \in BOOLEAN, answer \in TransportAnswers : ClaudeCodeNodeRun(task, answer)
    \/ \E task \in BOOLEAN, result \in CompletedProcesses :
           ClaudeCodeProviderRun(task, result)
    \/ \E task \in BOOLEAN, answer \in SessionIds \cup {Raised} : OllamaNodeRun(task, answer)

SpecAgent == InitAgent /\ [][NextAgent]_vars

----------------------------------------------------------------------------
(* sanitize_for_dashboard *)

max_length == 2000

\* a string of the given length; suffixed: truncation_suffix was appended
\* to it (the length counts the characters before the suffix)
Str(len) == [kind |-> "str", len |-> len, suffixed |-> FALSE]

\* a primitive value
Prim == [kind |-> "int"]

Dict(entries) == [kind |-> "dict", entries |-> entries]
List(elems) == [kind |-> "list", elems |-> elems]

\* data[:max_length] + truncation_suffix
Truncated(value) == [kind |-> "str", len |-> max_length, suffixed |-> TRUE]

\* isinstance(value, str) and len(value) > max_length
TooLong(value) == value.kind = "str" /\ value.len > max_length

Keys == {"a", "b"}

\* the metadata key of list item i is item_{i}
item(i) == IF i = 1 THEN "item_0" ELSE "item_1"

\* the dicts and lists that hold values of the set S
Containers(S) ==
    { Dict(entries) : entries \in UNION { [ks -> S] : ks \in SUBSET Keys } }
    \cup { List(<< >>) }
    \cup { List(<< x >>) : x \in S }
    \cup { List(<< x, y >>) : x \in S, y \in S }

Leaves == { Str(max_length), Str(max_length + 1), Prim }

\* workflow results: leaves, containers of leaves, and containers of those
Inner == Leaves \cup Containers(Leaves)
Outputs == Inner \cup Containers(Inner)

\* an entry of the metadata: {key}_truncated and {key}_full_length
Meta(key, value) == [key |-> key, truncated |-> TRUE, full_length |-> value.len]

\* the value sanitize_for_dashboard returns in place of an entry of a dict
\* or list
Shown(value) == IF TooLong(value) THEN Truncated(value) ELSE value

\* sanitize_for_dashboard(data): (sanitized, metadata)
sanitize_for_dashboard(data) ==
    CASE data.kind = "str" ->
           IF TooLong(data)
           THEN << Truncated(data), { Meta("output", data) } >>
           ELSE << data, {} >>
      [] data.kind = "dict" ->
           << Dict([k \in DOMAIN data.entries |-> Shown(data.entries[k])]),
              { Meta(k, data.entries[k]) :
                  k \in { x \in DOMAIN data.entries : TooLong(data.entries[x]) } } >>
      [] data.kind = "list" ->
           << List([i \in DOMAIN data.elems |-> Shown(data.elems[i])]),
              { Meta(item(i), data.elems[i]) :
                  i \in { x \in DOMAIN data.elems : TooLong(data.elems[x]) } } >>
      [] OTHER -> << data, {} >>

\* aexecute sanitises the result of the workflow for the dashboard
Sanitize ==
    /\ ~dashboard.done
    /\ dashboard' = [dashboard EXCEPT
                        !.sanitized = sanitize_for_dashboard(dashboard.data)[1],
                        !.metadata = sanitize_for_dashboard(dashboard.data)[2],
                        !.done = TRUE]
    /\ UNCHANGED <<factoryVars, implVars, last, graph, run, store, thread, loop>>

\* no worker exists and nothing has been called
WorkersIdle ==
    /\ instances = << >>
    /\ mcpWorkers = [j \in Journeys |-> NoWorker]
    /\ wk = [w \in WorkerIds |-> FreeWorker]
    /\ docker = {}
    /\ nextHandle = 0
    /\ registry = BuiltinWitnesses
    /\ pc = [p \in Tasks |-> "idle"]
    /\ loc = [p \in Tasks |-> NoLoc]
    /\ live = {}
    /\ last = NoLast
    /\ db = [conn |-> FALSE, environment |-> "development", young |-> 0, old |-> 0]
    /\ git = [branch |-> "main", staged |-> 0, ahead |-> 0]
    /\ files = {}
    /\ mock = [void_should_fail |-> FALSE, void_warnings |-> FALSE,
               execute_should_fail |-> FALSE, void_calls |-> 0, execute_calls |-> 0]
    /\ nodeWorkers = {}

InitSanitize ==
    /\ WorkersIdle
    /\ graph = NoGraph
    /\ run = NoRun
    /\ store = NoStore
    /\ thread = NoThread
    /\ loop = NoLoop
    /\ \E data \in Outputs : dashboard = [NoDashboard EXCEPT !.data = data]

NextSanitize == Sanitize

SpecSanitize == InitSanitize /\ [][NextSanitize]_vars

----------------------------------------------------------------------------
(* The optimize-evaluate workflow: initialize, then the loop
   prepare_optimizer -> writer_agent -> prepare_evaluator -> validator_agent
   -> check_convergence, as create_workflow and the injection of its
   claude_code_config build it *)

MaxIterations == 3            \* largest max_iterations handed to the workflow
default_max_iterations == 10  \* state.get("max_iterations", 10)

\* what an agent node writes into {role}_output
AgentOutputs == {"", "Goal achieved: NO", "Goal achieved: YES"}

\* str.lower() on the outputs above
lower(output) ==
    CASE output = "Goal achieved: NO" -> "goal achieved: no"
      [] output = "Goal achieved: YES" -> "goal achieved: yes"
      [] OTHER -> output

\* "goal achieved: yes" in (validator_output or "").lower()
goal_achieved(validator_output) == lower(validator_output) = "goal achieved: yes"

\* a check that stops one iteration late
Converged_late(goal, iteration, max_iterations) ==
    goal \/ iteration >= max_iterations

\* converged = goal_achieved or (iteration + 1 >= max_iterations)
Converged(goal, iteration, max_iterations) ==
    goal \/ iteration + 1 >= max_iterations

\* the state check_convergence returns
check_convergence(state) ==
    LET converged ==
            IF state.writer_output = "" /\ state.validator_output = "" /\ state.iteration > 0
            THEN TRUE
            ELSE Converged(goal_achieved(state.validator_output), state.iteration,
                           state.max_iterations)
    IN  [state EXCEPT !.iteration = state.iteration + 1, !.converged = converged]

\* the router of the conditional edge
should_continue(state) == IF state.converged THEN "end" ELSE "continue"

\* the conditional edge's map from the router's answer to the next node
RouteTo(route) == IF route = "end" THEN END ELSE "prepare_optimizer"

\* the workflow is invoked and initialize_optimization runs; given says whether
\* the input state has the key max_iterations
Initialize(given, value) ==
    /\ loop.node = "none"
    /\ loop' = [NoLoop EXCEPT !.node = "prepare_optimizer",
                              !.max_iterations = IF given THEN value
                                                 ELSE default_max_iterations]
    /\ UNCHANGED <<factoryVars, implVars, last, graph, run, store, thread, dashboard>>

\* prepare_optimizer_task writes writer_task
PrepareOptimizer ==
    /\ loop.node = "prepare_optimizer"
    /\ loop' = [loop EXCEPT !.node = "writer_agent"]
    /\ UNCHANGED <<factoryVars, implVars, last, graph, run, store, thread, dashboard>>

\* the injected writer node returns writer_output, or raises and the run fails
WriterAgent(output, raises) ==
    /\ loop.node = "writer_agent"
    /\ loop' = IF raises THEN [loop EXCEPT !.node = "failed"]
               ELSE [loop EXCEPT !.node = "prepare_evaluator", !.writer_output = output]
    /\ UNCHANGED <<factoryVars, implVars, last, graph, run, store, thread, dashboard>>

\* prepare_evaluator_task writes validator_task
PrepareEvaluator ==
    /\ loop.node = "prepare_evaluator"
    /\ loop' = [loop EXCEPT !.node = "validator_agent"]
    /\ UNCHANGED <<factoryVars, implVars, last, graph, run, store, thread, dashboard>>

\* the injected validator node returns validator_output, or raises
ValidatorAgent(output, raises) ==
    /\ loop.node = "validator_agent"
    /\ loop' = IF raises THEN [loop EXCEPT !.node = "failed"]
               ELSE [loop EXCEPT !.node = "check_convergence", !.validator_output = output]
    /\ UNCHANGED <<factoryVars, implVars, last, graph, run, store, thread, dashboard>>

\* check_convergence runs and the conditional edge routes on its result
CheckConvergence ==
    LET state == check_convergence(loop)
    IN  /\ loop.node = "check_convergence"
        /\ loop' = [state EXCEPT !.checks = loop.checks + 1,
                                 !.route = should_continue(state),
                                 !.node = RouteTo(should_continue(state))]
        /\ UNCHANGED <<factoryVars, implVars, last, graph, run, store, thread, dashboard>>

InitLoop ==
    /\ WorkersIdle
    /\ graph = NoGraph
    /\ run = NoRun
    /\ store = NoStore
    /\ thread = NoThread
    /\ dashboard = NoDashboard
    /\ loop = NoLoop

NextLoop ==
    \/ \E given \in BOOLEAN, value \in (-1)..MaxIterations : Initialize(given, value)
    \/ PrepareOptimizer
    \/ \E output \in AgentOutputs, raises \in BOOLEAN : WriterAgent(output, raises)
    \/ PrepareEvaluator
    \/ \E output \in AgentOutputs, raises \in BOOLEAN : ValidatorAgent(output, raises)
    \/ CheckConvergence

SpecLoop == InitLoop /\ [][NextLoop]_vars

----------------------------------------------------------------------------
(* Journey isolation in the factory (specification Spec) *)

RegisteredIn(inst, j) == \E i \in DOMAIN inst : inst[i].j = j

Registered(j) == RegisteredIn(instances, j)

\* C1: spawn(def, j) with a definition that loads succeeds exactly when no
\* worker is registered for j; a spawn that finds one raises JourneyCollision
\* and leaves the registry, the worker objects and the tool map as they were;
\* a spawn that succeeds registers a new worker for j; and when kill(j) has
\* returned, the worker it removed is registered no more, so that the next
\* spawn(def, j) succeeds.
C1_SpawnIffAbsent ==
    [][ /\ \A p \in Tasks, d \in SpecDefinitions, j \in Journeys, iso \in IsolationLevels :
             (last'.op = "spawn" /\ Spawn(p, d, j, iso)) =>
                 /\ last'.op = "spawn" /\ last'.j = j
                 /\ (last'.outcome = "JourneyCollision") <=> Registered(j)
                 /\ Registered(j) => UNCHANGED <<instances, wk, live, mcpWorkers, docker>>
                 /\ (~Registered(j) /\ d # "missing.yaml") =>
                        /\ last'.outcome = "ok"
                        /\ instances' = Append(instances, [j |-> j, w |-> last'.w])
                        /\ wk[last'.w].journey = "none"
                        /\ wk'[last'.w].journey = j
        /\ \A p \in Tasks, j \in Journeys :
             (last'.op = "kill" /\ Kill(p, j) /\ pc'[p] = "idle" /\ last'.outcome = "ok") =>
                 (Registered(j) /\ ~RegisteredIn(instances', j))
        /\ \A p \in Tasks :
             (loc[p].ctx = "kill" /\ KillContainerDone(p)) =>
                 /\ last'.op = "kill" /\ last'.outcome = "ok"
                 /\ instances' = instances
                 /\ \A i \in DOMAIN instances' : instances'[i].w # loc[p].w
      ]_vars

\* a second spawn for a registered journey was refused
C1_Witness ==
    /\ last.op = "spawn" /\ last.outcome = "JourneyCollision"
    /\ Registered(last.j)

\* C2: JOURNEY_ISOLATION - at most one live worker per journey, a worker being
\* live from the return of its spawn to the completion of its kill.
C2_JourneyIsolation ==
    \A j \in Journeys : Cardinality({w \in live : wk[w].journey = j}) <= 1

\* C3: spawn and kill exclude each other per journey - while kill(j) is between
\* its removal from the registry and the end of the worker's cleanup, no
\* spawn(j) has registered a worker for j.
C3_KillExcludesSpawn ==
    \A p \in Tasks, j \in Journeys :
        (pc[p] = "kill_container" /\ loc[p].j = j) => ~Registered(j)

\* C14: between a worker's spawn and its kill the container is created once
\* and reused - an execute in the container runs in the handle the worker
\* holds, and no execute is creating a container for a worker that already
\* holds one or for which another execute is creating one.
C14_OneContainerReused ==
    /\ \A p \in Tasks :
           (pc[p] = "exec_in_container" /\ loc[p].w \in live) =>
               loc[p].h = wk[loc[p].w].container_id
    /\ \A p \in Tasks :
           (pc[p] = "spawn_container" /\ loc[p].w \in live) =>
               /\ wk[loc[p].w].container_id = NoContainer
               /\ \A q \in Tasks \ {p} :
                      ~(pc[q] = "spawn_container" /\ loc[q].w = loc[p].w)

\* C15: when kill(j) has completed and no operation on j's worker is in
\* flight any more, no container acquired for j's worker is left alive.
C15_KillReleasesEverything ==
    \A j \in Journeys :
        ( /\ ~Registered(j)
          /\ \A p \in Tasks : pc[p] = "idle" \/ loc[p].j # j ) =>
            ~NameTaken(j, docker)

----------------------------------------------------------------------------
(* The void/execute contract of the worker implementations (specification
   SpecImpl) *)

\* C4: for every worker implementation and every action a, void(a) returns a
\* result whose side_effect_occurred is false.
C4_VoidReportsNoSideEffect ==
    last.op = "void" => (last.outcome = "ok" /\ ~last.result.side_effect_occurred)

\* a ClaudeCodeWorker.void that returned a warning of one of its witnesses
C4_Witness ==
    /\ last.op = "void" /\ last.impl = "claude_code" /\ last.outcome = "ok"
    /\ last.result.warnings # << >>
    /\ ~last.result.side_effect_occurred

\* C5: void(a) leaves the worker's action count, its isolation state (the
\* container handle and the containers alive) and the rows behind the worker
\* (the table, the repository, the files) as they were.
C5_VoidChangesNothing ==
    [][ /\ \A impl \in StandAlone : \A a \in ActionsOf(impl) :
             (last'.op = "void" /\ last'.impl = impl /\ last'.a = a /\ WorkerVoid(impl, a)) =>
                 /\ db'.young = db.young /\ db'.old = db.old
                 /\ git' = git /\ files' = files
                 /\ mock'.execute_calls = mock.execute_calls
        /\ \A w \in WorkerIds, a \in ClaudeActions :
             (last'.op = "void" /\ last'.w = w /\ last'.a = a /\ Void(Caller, w, a)) =>
                 /\ wk'[w].action_count = wk[w].action_count
                 /\ wk'[w].container_id = wk[w].container_id
                 /\ wk'[w].container_spawned = wk[w].container_spawned
                 /\ docker' = docker /\ instances' = instances
      ]_vars

\* void predicted the deletion of every row and the rows are still there
C5_Witness ==
    /\ last.op = "void" /\ last.impl = "db" /\ last.a.type = "delete" /\ last.a.where = ""
    /\ last.result.success
    /\ last.result.affected_rows > 0
    /\ db.young + db.old = last.result.affected_rows

\* C6: for every worker implementation, an execute(a) that returns success
\* reports side_effect_occurred.
C6_ExecuteSuccessHasSideEffect ==
    last.op = "execute" => (last.result.success => last.result.side_effect_occurred)

\* C7: a contract breach (a void result with a side effect, an execute result
\* with success and no side effect) ends the dispatcher's operation: it never
\* returns an entry, as a normal outcome, for such a result.
C7_BreachNeverReturned ==
    /\ (last.op = "dispatch" /\ last.outcome \in {"success", "failure"}) =>
           ~ValidateExecuteRaises(last.result)
    /\ (last.op = "dispatch" /\ last.outcome = "rejected") =>
           ~ValidateVoidRaises(last.result)

\* C17: a dispatch of the ExecutorNode calls the worker's execute only after
\* void on the same worker returned success with no warnings; when void
\* fails or warns, the dispatch yields a rejected entry, execute is not
\* called and nothing but void's own bookkeeping changes.
C17_DispatchGated ==
    [][ \A ran \in BOOLEAN :
          (last'.op = "dispatch" /\ last'.a \in DispatchActions
             /\ Dispatch(TRUE, last'.a, ran)) =>
              LET a == last'.a
                  impl == a.worker_type
                  v == VoidBuilt(impl, a)
              IN  /\ ("execute" \in {last'.calls[i] : i \in DOMAIN last'.calls}) =>
                         /\ last'.calls = << "void", "execute" >>
                         /\ impl \in nodeWorkers
                         /\ v.success /\ v.warnings = << >>
                  /\ (impl \in nodeWorkers /\ ~VoidRaises(impl, a)
                        /\ (~v.success \/ v.warnings # << >>)) =>
                         /\ last'.outcome = "rejected"
                         /\ last'.calls = << "void" >>
                         /\ UNCHANGED <<git, files>>
                         /\ db' = (IF impl = "db" THEN DatabaseWorker_void_state(a, db) ELSE db)
                         /\ mock'.execute_calls = mock.execute_calls
      ]_vars

\* a dispatch was rejected because void succeeded with warnings
C17_Witness ==
    /\ last.op = "dispatch" /\ last.outcome = "rejected"
    /\ last.result.success
    /\ last.void_warnings # << >>
    /\ last.calls = << "void" >>

----------------------------------------------------------------------------
(* Witness enforcement and the tool interface (specification SpecTool) *)

Positions(def) == [i \in 1..Len(Definitions[def].constraints) |-> i]

Range(seq) == {seq[i] : i \in DOMAIN seq}

\* C8: WITNESS_AUTOMATION - every void(a) call invokes each witness named in
\* the worker's constraints exactly once, in order, none skipped.
C8_EveryWitnessOnce ==
    last.op = "void" => last.invoked = Positions(last.def)

\* C9: when a witness raises during void(a), a witness-execution error is in
\* the returned warnings, every later constraint whose witness is registered
\* is still run, and void returns normally.
C9_WitnessErrorRecorded ==
    [][ \A w \in WorkerIds, a \in ClaudeActions :
          (last'.op = "void" /\ Void(Caller, w, a)) =>
              LET cs == Definitions[wk[w].def].constraints IN
              \A i \in DOMAIN cs :
                  (cs[i].witness = "mock_witness_raises" /\ cs[i].witness \in registry) =>
                      /\ last'.op = "void" /\ last'.outcome = "ok"
                      /\ [kind |-> "witness_execution_error", witness |-> cs[i].witness]
                             \in Range(last'.result.warnings)
                      /\ \A k \in DOMAIN cs :
                             (k > i /\ cs[k].witness \in registry) => k \in Range(last'.invoked)
      ]_vars

\* void returned although its first witness raised, and the witness after it ran
C9_Witness ==
    /\ last.op = "void" /\ last.outcome = "ok"
    /\ last.def = "sandbox"
    /\ last.invoked = << 1, 2 >>
    /\ [kind |-> "witness_execution_error", witness |-> "mock_witness_raises"]
           \in Range(last.result.warnings)

\* C10: execute_in_worker on an existing worker calls void first, calls
\* execute only when void returned no warnings, and otherwise answers
\* constraint_violation without calling execute.
C10_VoidGatesExecute ==
    /\ (last.op = "execute_in_worker" /\ last.outcome # "no_worker") =>
           /\ last.calls # << >> /\ last.calls[1] = "void"
           /\ ("execute" \in Range(last.calls)) <=> (last.void_warnings = << >>)
           /\ (last.outcome = "constraint_violation") <=> (last.void_warnings # << >>)
    /\ \A p \in Tasks :
           loc[p].ctx = "execute_in_worker" =>
               loc[p].calls = << "void", "execute" >> /\ loc[p].void_warnings = << >>

\* an execute_in_worker call was refused after void returned a warning
C10_Witness ==
    /\ last.op = "execute_in_worker" /\ last.outcome = "constraint_violation"
    /\ last.calls = << "void" >>
    /\ last.void_warnings # << >>

\* C11: an execute_in_worker call on an existing worker whose void returned
\* warnings is answered constraint_violation and leaves the worker's action
\* count, its isolation state, the containers and both worker registries
\* exactly as they were.
C11_RefusedChangesNothing ==
    [][ \A j \in ToolJourneys, a \in ClaudeActions :
          ( /\ last'.op = "execute_in_worker" /\ last'.j = j /\ last'.a = a
            /\ McpExecuteInWorker(Caller, j, a)
            /\ mcpWorkers[j] # NoWorker
            /\ ClaudeCodeWorker_void(wk[mcpWorkers[j]], a, registry).warnings # << >> ) =>
              /\ last'.outcome = "constraint_violation"
              /\ "execute" \notin Range(last'.calls)
              /\ UNCHANGED <<wk, instances, mcpWorkers, docker, nextHandle, registry, pc, loc>>
      ]_vars

\* a call was refused on a worker that had already executed an action in its
\* container
C11_Witness ==
    /\ last.op = "execute_in_worker" /\ last.outcome = "constraint_violation"
    /\ last.w # NoWorker
    /\ wk[last.w].action_count > 0
    /\ wk[last.w].container_id # NoContainer

\* C13: isolation is acquired lazily - a worker object is constructed without
\* a container, only an execute completing its container creation gives a
\* worker a container or adds one to the daemon (spawn, resume, state, void
\* and kill steps never do), and void returns normally whether or not the
\* worker's isolation is live.
C13_IsolationAcquiredLazily ==
    [][ /\ \A w \in WorkerIds :
              (wk[w] = FreeWorker /\ wk'[w] # FreeWorker) =>
                  wk'[w].container_id = NoContainer /\ ~wk'[w].container_spawned
        /\ \A w \in WorkerIds :
              ( \/ wk'[w].container_id \notin {NoContainer, wk[w].container_id}
                \/ (wk'[w].container_spawned /\ ~wk[w].container_spawned) ) =>
                  \E p \in Tasks : /\ pc[p] = "spawn_container"
                                   /\ loc[p].op = "execute" /\ loc[p].w = w
                                   /\ pc'[p] = "exec_in_container"
        /\ (docker' \ docker # {}) =>
              \E p \in Tasks : /\ pc[p] = "spawn_container" /\ loc[p].op = "execute"
                               /\ pc'[p] = "exec_in_container"
                               /\ wk'[loc[p].w].container_id \in {c.id : c \in docker' \ docker}
        /\ \A w \in WorkerIds, a \in ClaudeActions :
              (last'.op = "void" /\ last'.w = w /\ last'.a = a /\ Void(Caller, w, a)) =>
                  last'.outcome = "ok" /\ last'.result.success
      ]_vars

\* void returned on a container-isolated worker while no container existed
C13_Witness ==
    /\ last.op = "void" /\ last.outcome = "ok"
    /\ last.w # NoWorker
    /\ wk[last.w].isolation_level = "container"
    /\ wk[last.w].container_id = NoContainer /\ ~wk[last.w].container_spawned
    /\ docker = {}

\* C16: a worker execution that fails inside a dispatcher (the ExecutorNode or
\* the execute_in_worker tool), by returning success = false or by raising,
\* leaves an entry with status failure in the executions channel and is not
\* answered as a success.
C16_FailureLogged ==
    ( /\ last.op \in {"dispatch", "execute_in_worker"}
      /\ "execute" \in Range(last.calls)
      /\ (last.outcome = "error_response" \/ ~last.result.success) ) =>
        /\ EntryStatus(last) = "failure"
        /\ last.outcome \notin {"success", "completed"}

----------------------------------------------------------------------------
(* Definition validation (specification SpecValidate) *)

\* C12: the validator accepts a definition only if every constraint's witness
\* is registered in the registry void-time enforcement consults, so void on a
\* worker of an accepted definition invokes the witness of every constraint.
C12_AcceptedWitnessesRegistered ==
    /\ (last.op = "validate" /\ last.outcome = "valid") =>
           \A i \in DOMAIN last.candidate.constraints :
               is_registered(last.candidate.constraints[i].witness, registry)
    /\ (last.op = "void" /\ last.candidate # NoCandidate) =>
           last.invoked = [i \in DOMAIN last.candidate.constraints |-> i]

\* C34: a spawn_worker call for a journey that has a worker in the tool
\* server's map is answered with that worker and without an error, and
\* creates no worker and changes neither registry nor any worker.
C34_SpawnWorkerIdempotent ==
    [][ ( /\ last' # last /\ last'.op = "spawn_worker"
          /\ mcpWorkers[last'.j] # NoWorker ) =>
            /\ last'.outcome = "already_exists"
            /\ last'.w = mcpWorkers[last'.j]
            /\ UNCHANGED <<wk, instances, mcpWorkers, live, docker, nextHandle, registry>>
      ]_vars

\* spawn_worker was called again for a journey whose worker had already
\* executed an action
C34_Witness ==
    /\ last.op = "spawn_worker" /\ last.outcome = "already_exists"
    /\ last.w # NoWorker /\ wk[last.w].action_count > 0

\* C39: when a worker's void returned success without warnings and execute
\* ran on the same action straight afterwards (as ExecutorNode does), the
\* execute result is not the failure for an unknown action type.
C39_VoidAndExecuteAgree ==
    (last.op = "dispatch" /\ "execute" \in Range(last.calls)) =>
        last.result.error # "unknown_action_type"

\* a gated call of coroutine p that has passed void and whose execute has not
\* returned yet
BetweenVoidAndExecute(p) ==
    /\ loc[p].ctx = "execute_in_worker"
    /\ pc[p] \in {"spawn_container", "exec_in_container"}

\* C37: void and the execute it guards are atomic per worker: while a gated
\* call is between its void and the return of its execute, no other call's
\* execute takes effect on the same worker (its action count stays as void
\* found it).
C37_VoidExecuteAtomic ==
    [][\A p \in Tasks :
          (BetweenVoidAndExecute(p) /\ pc'[p] = pc[p] /\ loc'[p] = loc[p]) =>
              wk'[loc[p].w].action_count = wk[loc[p].w].action_count]_vars

\* C38: every journey in the tool server's worker map is registered in the
\* factory with the same worker object, so no tool call reaches a worker
\* that was killed.
C38_ToolMapWithinFactory ==
    \A j \in Journeys :
        mcpWorkers[j] # NoWorker => Get(instances, j) = mcpWorkers[j]

----------------------------------------------------------------------------
(* Agent injection and the executor (specification SpecExec) *)

\* the agents of the run that the injection loop added to the graph
InjectedAgents ==
    { run.agents[i] : i \in { k \in DOMAIN run.agents : Injects(run.agents[k], run.llm_providers) } }

\* C24: after injection every injected agent's node {role}_agent is in the
\* graph with the edge inject_after -> {role}_agent and exactly one outgoing
\* edge, to inject_before when it is given and to END otherwise.
C24_InjectedWiredBothSides ==
    \A a \in InjectedAgents :
        LET n == node_name(a.role_name) IN
        /\ n \in graph.nodes
        /\ << a.inject_after, n >> \in graph.edges
        /\ { e \in graph.edges : e[1] = n } =
               { << n, IF a.inject_before # "" THEN a.inject_before ELSE END >> }

\* C25: an agent injected after X with no inject_before lies between X and
\* each successor Y the workflow gave X - the graph handed to the engine has
\* the edge agent -> Y and no edge X -> Y that would let Y start without the
\* agent (for the with_claude_code template: prepare_research -> researcher
\* -> prepare_write -> writer -> prepare_review -> reviewer -> END).
C25_AgentBetweenNeighbours ==
    \A a \in InjectedAgents :
        a.inject_before = "" =>
            \A e \in TemplateGraph.edges :
                e[1] = a.inject_after =>
                    /\ << node_name(a.role_name), e[2] >> \in graph.edges
                    /\ e \notin graph.edges

\* C26: when an agent entry names a provider that is not known, aexecute
\* fails with UnknownProvider before the checkpointer is opened or the
\* workflow invoked.
C26_UnknownProviderFails ==
    ( /\ run.phase \notin {"idle", "direct"}
      /\ \E i \in DOMAIN run.agents :
             /\ run.agents[i].role_name # "" /\ run.agents[i].inject_after # ""
             /\ ProviderOf(run.agents[i]) \notin SupportedProviders ) =>
        run.phase = "raised" /\ run.error = "UnknownProvider"

\* the resilient wrapper as create_checkpointer builds it
DefaultResilient ==
    /\ store.kind = "resilient"
    /\ store.max_retries = default_max_retries
    /\ store.retry_delays = default_retry_delays

C30_DefaultDelaysApplied ==
    (DefaultResilient /\ store.degraded) => store.slept = << 1, 2, 4 >>

\* C31: a checkpoint write that fails while the workflow runs on the
\* resilient wrapper's store does not fail the execution (it is retried, or
\* the run goes on on the fallback store).
C31_WriteFailureAbsorbed ==
    ~( /\ store.kind = "resilient"
       /\ run.phase = "raised" /\ run.error = "checkpoint write" )

\* aexecute has returned to its caller
Left == run.phase \in {"done", "raised", "cancelled"}

\* C32: when aexecute has left, a checkpointer that was opened has been
\* released exactly once, the release came before the return or the raise
\* the caller sees, and a run that is still going on has released nothing.
C32_CheckpointerReleased ==
    /\ run.released <= 1
    /\ run.phase \in {"opening", "invoking"} => run.released = 0
    /\ Left =>
        /\ store.backend # "none" => run.released = 1 /\ store.status = "closed"
        /\ run.released = 1 =>
              /\ Len(run.order) >= 2
              /\ run.order[Len(run.order) - 1] = "release"
              /\ run.order[Len(run.order)] \in {"return", "raise"}
        /\ run.phase = "raised" => run.error # "none" /\ run.order[Len(run.order)] = "raise"

\* a node raised while the workflow ran on an opened PostgreSQL checkpointer
C32_Witness ==
    /\ run.phase = "raised" /\ run.error = "node"
    /\ store.backend = "postgres" /\ run.released = 1

\* C33: with tracing on, aexecute has flushed the traces at least once
\* before it returns the final state, and at least once before it lets an
\* error through, whichever step raised it.
C33_FlushedOnBothOutcomes ==
    (run.tracing /\ run.phase \in {"done", "raised"}) =>
        /\ run.flushed >= 1
        /\ \E i \in DOMAIN run.order :
              /\ run.order[i] = "flush"
              /\ \A k \in DOMAIN run.order :
                     run.order[k] \in {"return", "raise"} => i < k

\* the checkpointer could not be opened and the error went to the caller
\* after a flush
C33_Witness ==
    /\ run.tracing /\ run.phase = "raised" /\ run.error = "OperationalError"
    /\ run.flushed = 1

----------------------------------------------------------------------------
(* Session continuity of agent nodes (specification SpecAgent) *)

\* C27: whenever an agent calls its transport, whatever its provider, the
\* resume hint it passes is the session id that {role}_session_id held in
\* the input state, and it passes no hint when the state had no such field.
C27_ResumeHintFromState ==
    [][ (thread'.runs # thread.runs /\ thread'.call.called) =>
          /\ thread.state \in SessionIds => thread'.call.hint = thread.state
          /\ thread.state = Absent => thread'.call.hint = NoHint ]_vars

\* C28: in a later run on the thread the agent's resume hint is the session
\* id its transport returned most recently in an earlier run, and a run never
\* replaces a session id held in the thread's state by None, the empty
\* string or a placeholder.
C28_SessionCarriedAcrossRuns ==
    [][ thread'.runs # thread.runs =>
          /\ (thread'.call.called /\ thread.session \in SessionIds)
                 => thread'.call.hint = thread.session
          /\ thread.state \in SessionIds => thread'.state \in SessionIds ]_vars

\* the latest call was made by the ClaudeCodeProvider and its subprocess
\* ended this way
ProviderCall == thread.provider = "ClaudeCodeProvider" /\ thread.call.called

\* C35: the ClaudeCodeProvider raises an error of its own kind for each
\* failure - for a non-zero exit a failure that carries stderr, for stdout
\* that does not parse a response error, for a time-out a time-out error -
\* and the three differ in type or message.
C35_ProviderErrorKinds ==
    ProviderCall =>
        LET result == thread.call.result
            error == thread.call.error
        IN  /\ result.timeout => error.message = "Claude Code CLI timed out"
            /\ (~result.timeout /\ result.returncode # 0) =>
                   /\ error.type = "RuntimeError"
                   /\ error.message = "Claude Code CLI failed"
                   /\ error.carries = IF result.stderr = "" THEN "Unknown error"
                                      ELSE result.stderr
            /\ (~result.timeout /\ result.returncode = 0 /\ result.stdout = "not json") =>
                   /\ error.type = "RuntimeError"
                   /\ error.message = "Failed to parse CLI response"

----------------------------------------------------------------------------
(* The dashboard sanitiser (specification SpecSanitize) *)

\* the element names on the way into a container, and the value behind one
Names(value) ==
    CASE value.kind = "dict" -> DOMAIN value.entries
      [] value.kind = "list" -> { item(i) : i \in DOMAIN value.elems }
      [] OTHER -> {}

Child(value, name) ==
    IF value.kind = "dict" THEN value.entries[name]
    ELSE value.elems[CHOOSE i \in DOMAIN value.elems : item(i) = name]

\* what must be shown for a value if strings are truncated at every depth
RECURSIVE Deep(_)
Deep(value) ==
    CASE value.kind = "dict" ->
           Dict([k \in DOMAIN value.entries |-> Deep(value.entries[k])])
      [] value.kind = "list" ->
           List([i \in DOMAIN value.elems |-> Deep(value.elems[i])])
      [] OTHER -> Shown(value)

\* the lengths of the strings over the limit anywhere inside a value
RECURSIVE LongStrings(_)
LongStrings(value) ==
    IF TooLong(value) THEN { value.len }
    ELSE UNION { LongStrings(Child(value, name)) : name \in Names(value) }

\* C36: in what sanitize_for_dashboard returns, every string over the limit,
\* at whatever depth of dicts and lists, is cut to the limit with the suffix
\* and its full length is in the metadata; every other value is unchanged.
C36_SanitisedAtEveryDepth ==
    dashboard.done =>
        /\ dashboard.sanitized = Deep(dashboard.data)
        /\ \A len \in LongStrings(dashboard.data) :
               \E m \in dashboard.metadata : m.full_length = len

----------------------------------------------------------------------------
(* The optimize-evaluate loop (specification SpecLoop) *)

\* max(1, max_iterations)
CheckLimit == IF loop.max_iterations > 1 THEN loop.max_iterations ELSE 1

\* C40: in one execution check_convergence runs at most max(1, max_iterations)
\* times, whatever the agents return; once it has run that many times the
\* state is converged, the router has answered "end" and the workflow is at
\* END.
C40_LoopBounded ==
    /\ loop.checks <= CheckLimit
    /\ (loop.node # "none" /\ loop.checks = CheckLimit) =>
           loop.converged /\ loop.route = "end" /\ loop.node = END

\* the loop went round to its limit of at least two checks without the
\* validator ever reporting the goal, and stopped there
C40_Witness ==
    /\ loop.max_iterations >= 2
    /\ loop.checks = loop.max_iterations
    /\ ~goal_achieved(loop.validator_output)
    /\ loop.writer_output # ""
    /\ loop.node = END

====
